---- MODULE Spec2Model ----
(***************************************************************************)
(* Dense kernel dispatch layer of ngbla (basiclinalg/ngblas.hpp).          *)
(*                                                                         *)
(* Operands are non-owning views over linear buffers.  Init draws the      *)
(* operands of one call (shapes, memory orders, entries); every action is  *)
(* one public entry point applied to them.  An entry point returns the     *)
(* buffer of its output operand together with the list of routines it      *)
(* invoked (table slot, non-table fallback, extern routine or the generic  *)
(* expression-template body).                                              *)
(***************************************************************************)
EXTENDS Integers, Sequences, FiniteSets, TLC

VARIABLES
    tables,   \* the dispatch tables: name -> sequence of routine references
    a, b, c,  \* matrix views; a is h x k, b is k x w, c is h x w (logical)
    x, y,     \* vector views; x has k entries, y has h entries
    ind,      \* index map of the indirect scatter product
    diag,     \* vector of diagonal weights
    used,     \* bit-set over the indices of a: sequence of flags
    S,        \* matrix view written by the Schur complement
    c0, y0,   \* buffers of c and y when the call was entered
    call,     \* the entry point called and its template/scalar arguments
    trace,    \* routines invoked by the call, in order
    pc,       \* "ready" before the call, "done" after it returned
    mat,      \* the matrix handed to the eigen-decomposition
    lami,     \* vector receiving the eigenvalues
    eigenvecs,\* matrix receiving the eigenvectors, one per column
    work,     \* scratch copy of mat that the rotations reduce
    sweeps,   \* rotation sweeps completed so far
    pq,       \* the pair of indices the current sweep rotates next
    xs, ys,   \* multi-vectors: sequences of vectors of a common length
    ip,       \* matrix receiving the pairwise inner products
    xs0,      \* xs before the calls
    calls,    \* calls of dispatch entry points that have returned and been followed
              \* by another call
    lh,       \* allocation mark of the scratch arena: units handed out so far
    hr,       \* the live HeapReset objects, outermost first, each holding the mark it saw
    unwinding,\* an exception is propagating through the scopes
    global_heapsize, \* size of the global scratch heap, a size_t
    glh,      \* the global scratch heap: its size and the serial number of the object
    passed,   \* the heapsize arguments passed so far, oldest first
    args,     \* arguments of the Integrate call in progress
    mask,     \* Integrate: bit-set over the regions
    use_simd, \* Integrate: shared flag, cleared when the SIMD evaluation is unavailable
    sum, region_sum, element_sum, \* Integrate: the accumulators
    pending,  \* Integrate: elements IterateElements has not handed out yet
    workers,  \* Integrate: per thread, the callback's position and locals
    adds,     \* Integrate: per element, the additions to sum made for it
    mem,      \* memory the vector views of CopyVector / AddVector point into
    mem0,     \* that memory before the call
    src, dest \* the vector views: first cell, distance of consecutive elements, size

\* state of the eigen-decomposition
eigVars == <<mat, lami, eigenvecs, work, sweeps, pq>>

\* state of the multi-vector operations
mvVars == <<xs, ys, ip, xs0>>

\* state of the scratch arena
arenaVars == <<lh, hr, unwinding>>

\* state of the Python-facing entry points
compVars == <<global_heapsize, glh, passed, args, mask, use_simd, sum, region_sum,
              element_sum, pending, workers, adds>>

\* operands of the vector operations
vecVars == <<mem, mem0, src, dest>>

hostVars == <<arenaVars, compVars, vecVars>>

vars == <<tables, a, b, c, x, y, ind, diag, used, S, c0, y0, call, trace, pc, eigVars, mvVars, calls, hostVars>>

----------------------------------------------------------------------------
(* Bounds of the model *)

\* largest height/width of the dimensions that are not swept over a table
MaxOuter == 2
\* largest value of the swept dimension; above every table's last index (25)
MaxKey == 27
\* number of different entry patterns minus one
MaxSeed == 1
\* largest height/width of the operands of the scaling and Schur-complement routines
MaxDim == 3

----------------------------------------------------------------------------
(* Program constants: declared sizes of the dispatch tables *)

Size_matvec == 26
Size_addmatvec == 25
Size_mattransvec == 13
Size_addmattransvec == 13
Size_addmattransvecI == 25
Size_multAB == 14
Size_minusmultAB == 14
Size_addAB == 14
Size_subAB == 14
Size_atb == 14
Size_abt == 25
Size_addabt == 25

(* Program constant: size of the global scratch heap at start-up *)
InitialHeapSize == 1000000

Min(m, n) == IF m <= n THEN m ELSE n

BOOL == {FALSE, TRUE}
Orders == {"Row", "Col"}

----------------------------------------------------------------------------
(* Views *)

RECURSIVE SeqSum(_)
SeqSum(s) == IF s = <<>> THEN 0 ELSE s[1] + SeqSum(Tail(s))

\* sum of f[0] .. f[n-1]
SumTo(n, f) == SeqSum([l \in 1..n |-> f[l - 1]])

\* no eigen-decomposition is in progress
IdleEig ==
    /\ mat = [h |-> 0, w |-> 0, ord |-> "Row", dist |-> 0, buf |-> <<>>]
    /\ lami = [n |-> 0, buf |-> <<>>]
    /\ eigenvecs = [h |-> 0, w |-> 0, ord |-> "Row", dist |-> 0, buf |-> <<>>]
    /\ work = <<>>
    /\ sweeps = 0
    /\ pq = <<0, 1>>

\* no multi-vector operation is in progress
IdleMv ==
    /\ xs = <<>> /\ ys = <<>> /\ xs0 = <<>>
    /\ ip = [h |-> 0, w |-> 0, ord |-> "Row", dist |-> 0, buf |-> <<>>]

\* the threads IterateElements runs the element callbacks on
Threads == {1, 2}

\* a size_t value q * 2^64 + r is the pair <<q, r>>: q = 0 and r >= 0 for the
\* small values, q = 1 and r < 0 for the values just below 2^64; an int is <<0, r>>
Small(r) == <<0, r>>

\* no scratch arena is in use
IdleArena ==
    /\ lh = 0 /\ hr = <<>> /\ unwinding = FALSE

\* the module has been loaded and no Python-facing entry point has been called
IdleComp ==
    /\ global_heapsize = Small(InitialHeapSize)
    /\ glh = [size |-> Small(InitialHeapSize), serial |-> 0]
    /\ passed = <<>>
    /\ args = [heapsize |-> 0, region_wise |-> FALSE, element_wise |-> FALSE]
    /\ mask = <<>>
    /\ use_simd = TRUE
    /\ sum = 0 /\ region_sum = <<>> /\ element_sum = <<>>
    /\ pending = {}
    /\ workers = [t \in Threads |-> [pc |-> "idle", el |-> 0, hsum |-> 0, this_simd |-> TRUE]]
    /\ adds = <<>>

\* no vector operation is in progress
IdleVec ==
    /\ mem = <<>> /\ mem0 = <<>>
    /\ src = [start |-> 0, dist |-> 1, n |-> 0]
    /\ dest = [start |-> 0, dist |-> 1, n |-> 0]

IdleHost == IdleArena /\ IdleComp /\ IdleVec

Flip(ord) == IF ord = "Row" THEN "Col" ELSE "Row"

\* a packed view of height h and width w over buffer buf
View(h, w, ord, buf) ==
    [h |-> h, w |-> w, ord |-> ord, dist |-> IF ord = "Row" THEN w ELSE h, buf |-> buf]

\* position of entry (i,j) in the buffer, both counted from 0
Pos(m, i, j) == IF m.ord = "Row" THEN i * m.dist + j + 1 ELSE j * m.dist + i + 1

At(m, i, j) == m.buf[Pos(m, i, j)]

\* row and column of buffer position p
RowOf(m, p) == IF m.ord = "Row" THEN (p - 1) \div m.dist ELSE (p - 1) % m.dist
ColOf(m, p) == IF m.ord = "Row" THEN (p - 1) % m.dist ELSE (p - 1) \div m.dist

\* Trans: the same buffer read with rows and columns exchanged
Trans(m) == [h |-> m.w, w |-> m.h, ord |-> Flip(m.ord), dist |-> m.dist, buf |-> m.buf]

\* buffer of m after entries (i,j), i < h, j < w, are set to f[i,j]
Store(m, h, w, f) ==
    [p \in 1..Len(m.buf) |->
        IF RowOf(m, p) < h /\ ColOf(m, p) < w THEN f[RowOf(m, p), ColOf(m, p)] ELSE m.buf[p]]

\* the index set of an h x w matrix
Idx(h, w) == (0..(h - 1)) \X (0..(w - 1))

Vec(buf) == [n |-> Len(buf), buf |-> buf]
VAt(v, i) == v.buf[i + 1]

\* what a call to a BareSliceMatrix parameter keeps of a view: no height, no width
Bare(m) == [ord |-> m.ord, dist |-> m.dist, buf |-> m.buf]

----------------------------------------------------------------------------
(* Exact arithmetic for the routines that divide: a number is a fraction    *)
(* <<numerator, denominator>> in lowest terms with a positive denominator.  *)

Abs(n) == IF n < 0 THEN 0 - n ELSE n

RECURSIVE Gcd(_, _)
Gcd(m, n) == IF n = 0 THEN m ELSE Gcd(n, m % n)

\* the fraction n/d, d # 0
Rat(n, d) ==
    LET g == Gcd(Abs(n), Abs(d))
        sgn == IF d < 0 THEN -1 ELSE 1
    IN <<(sgn * n) \div g, (sgn * d) \div g>>

RAdd(p, q) == Rat(p[1] * q[2] + q[1] * p[2], p[2] * q[2])
RSub(p, q) == Rat(p[1] * q[2] - q[1] * p[2], p[2] * q[2])
RMul(p, q) == Rat(p[1] * q[1], p[2] * q[2])
\* p/q, q # 0
RDiv(p, q) == Rat(p[1] * q[2], p[2] * q[1])

RECURSIVE RSeqSum(_)
RSeqSum(q) == IF q = <<>> THEN Rat(0, 1) ELSE RAdd(q[1], RSeqSum(Tail(q)))

\* sum of the fractions f[0] .. f[n-1]
RSumTo(n, f) == RSeqSum([l \in 1..n |-> f[l - 1]])

\* what a division by zero leaves: not a number
NaN == <<0, 0>>

----------------------------------------------------------------------------
(* Results of the kernels: the documented formula of each operation *)

\* (a*b)(i,j) with contraction length n
Prod_AB(ma, mb, n, i, j) == SumTo(n, [l \in 0..(n - 1) |-> At(ma, i, l) * At(mb, l, j)])
\* (Trans(a)*b)(i,j) with contraction length n
Prod_AtB(ma, mb, n, i, j) == SumTo(n, [l \in 0..(n - 1) |-> At(ma, l, i) * At(mb, l, j)])
\* (a*Trans(b))(i,j) with contraction length n
Prod_ABt(ma, mb, n, i, j) == SumTo(n, [l \in 0..(n - 1) |-> At(ma, i, l) * At(mb, j, l)])

\* ADD/POS:  f f  C = -A*B;  f t  C = A*B;  t f  C -= A*B;  t t  C += A*B
Update(ADD, POS, old, p) == (IF ADD THEN old ELSE 0) + (IF POS THEN p ELSE 0 - p)

\* accumulate and sign flags of the kernel families
KernADD(kern) == kern \in {"addAB", "subAB", "atb_tf", "atb_tt", "addabt", "subabt"}
KernPOS(kern) == kern \in {"multAB", "addAB", "atb_ft", "atb_tt", "abt", "addabt"}

\* the routine stored for size n of kernel family kern
Routine(kern, n) == <<kern, n>>

\* a routine of type pmultABW run on (ha, wa, wb, a, b, c): the buffer of c after it
RunABW(r, ha, wa, wb, ma, mb, mc) ==
    IF r[1] \in {"multAB", "minusmultAB", "addAB", "subAB"}
    THEN Store(mc, ha, wb,
               [ij \in Idx(ha, wb) |->
                   Update(KernADD(r[1]), KernPOS(r[1]), At(mc, ij[1], ij[2]),
                          Prod_AB(ma, mb, wa, ij[1], ij[2]))])
    ELSE IF r[1] \in {"atb_ff", "atb_ft", "atb_tf", "atb_tt"}
    THEN Store(mc, wa, wb,
               [ij \in Idx(wa, wb) |->
                   Update(KernADD(r[1]), KernPOS(r[1]), At(mc, ij[1], ij[2]),
                          Prod_AtB(ma, mb, ha, ij[1], ij[2]))])
    ELSE mc.buf

\* a routine of type pfunc_abt run on (ha, hb, a, b, c); the width of a is the
\* size the routine is written for
RunABt(r, ha, hb, ma, mb, mc) ==
    IF r[1] \in {"abt", "addabt"}
    THEN Store(mc, ha, hb,
               [ij \in Idx(ha, hb) |->
                   Update(KernADD(r[1]), KernPOS(r[1]), At(mc, ij[1], ij[2]),
                          Prod_ABt(ma, mb, r[2], ij[1], ij[2]))])
    ELSE mc.buf

\* the extern routines C ?= A*Bt on full views (MultABt_intern, AddABt_intern,
\* MinusMultABt, SubABt)
RunABtFull(ADD, POS, ma, mb, mc) ==
    Store(mc, ma.h, mb.h,
          [ij \in Idx(ma.h, mb.h) |->
              Update(ADD, POS, At(mc, ij[1], ij[2]), Prod_ABt(ma, mb, ma.w, ij[1], ij[2]))])

\* a routine of type pmult_matvec / pmultadd_matvec run on (s, a, x, y)
RunMatVec(r, s, ma, vx, vy) ==
    IF r[1] \in {"matvec", "addmatvec"}
    THEN [i \in 1..vy.n |->
            (IF r[1] = "addmatvec" THEN vy.buf[i] ELSE 0)
            + s * SumTo(vx.n, [j \in 0..(vx.n - 1) |-> At(ma, i - 1, j) * VAt(vx, j)])]
    ELSE IF r[1] \in {"mattransvec", "addmattransvec"}
    THEN [i \in 1..vy.n |->
            (IF r[1] = "addmattransvec" THEN vy.buf[i] ELSE 0)
            + s * SumTo(vx.n, [j \in 0..(vx.n - 1) |-> At(ma, j, i - 1) * VAt(vx, j)])]
    ELSE vy.buf

\* y[ind[i]] += s * sum_j x[j]*A[j,i]
RunIndirect(s, ma, vx, vy, vind) ==
    [q \in 1..vy.n |->
        vy.buf[q] + SumTo(Len(vind),
            [i \in 0..(Len(vind) - 1) |->
                IF vind[i + 1] = q - 1
                THEN s * SumTo(vx.n, [j \in 0..(vx.n - 1) |-> VAt(vx, j) * At(ma, j, i)])
                ELSE 0])]

----------------------------------------------------------------------------
(* Dispatch tables *)

Table(kern, size) == [i \in 1..size |-> Routine(kern, i - 1)]

InitTables ==
    [dispatch_matvec          |-> Table("matvec", Size_matvec),
     dispatch_addmatvec       |-> Table("addmatvec", Size_addmatvec),
     dispatch_mattransvec     |-> Table("mattransvec", Size_mattransvec),
     dispatch_addmattransvec  |-> Table("addmattransvec", Size_addmattransvec),
     dispatch_addmattransvecI |-> Table("addmattransvecI", Size_addmattransvecI),
     dispatch_multAB          |-> Table("multAB", Size_multAB),
     dispatch_minusmultAB     |-> Table("minusmultAB", Size_minusmultAB),
     dispatch_addAB           |-> Table("addAB", Size_addAB),
     dispatch_subAB           |-> Table("subAB", Size_subAB),
     dispatch_atb_ff          |-> Table("atb_ff", Size_atb),
     dispatch_atb_ft          |-> Table("atb_ft", Size_atb),
     dispatch_atb_tf          |-> Table("atb_tf", Size_atb),
     dispatch_atb_tt          |-> Table("atb_tt", Size_atb),
     dispatch_abt             |-> Table("abt", Size_abt),
     dispatch_addabt          |-> Table("addabt", Size_addabt)]

\* dispatch_atb<ADD,POS>::ptrs
dispatch_atb(ADD, POS) ==
    IF ADD THEN (IF POS THEN "dispatch_atb_tt" ELSE "dispatch_atb_tf")
           ELSE (IF POS THEN "dispatch_atb_ft" ELSE "dispatch_atb_ff")

\* the reference read from slot i of table t; a read past the end of the array
\* yields no routine of the table
TableRead(t, i) ==
    IF i >= 0 /\ i < Len(tables[t]) THEN tables[t][i + 1] ELSE <<"out_of_bounds", i>>

----------------------------------------------------------------------------
(* Records of the routines a call invokes *)

\* shape of a SliceMatrix argument, and of a BareSliceMatrix argument
Shape(m) == [h |-> m.h, w |-> m.w, ord |-> m.ord, dist |-> m.dist]
BareShape(m) == [ord |-> m.ord, dist |-> m.dist]

\* an entry point entered with template flags / scalars `flags` and operands `ops`
Entry(name, flags, ops) ==
    [kind |-> "entry", name |-> name, slot |-> -1, routine |-> <<>>,
     flags |-> flags, dims |-> <<>>, ops |-> ops]
\* the routine read from slot i of table t, called with the sizes dims
TableCall(t, i, dims) ==
    [kind |-> "table", name |-> t, slot |-> i, routine |-> TableRead(t, i),
     flags |-> <<>>, dims |-> dims, ops |-> <<>>]
\* a routine called by name: kind is "intern" or "generic"
Direct(kind, name, flags) ==
    [kind |-> kind, name |-> name, slot |-> -1, routine |-> <<>>,
     flags |-> flags, dims |-> <<>>, ops |-> <<>>]

Result(buf, tr) == [buf |-> buf, trace |-> tr]

----------------------------------------------------------------------------
(* Matrix-vector entry points.  Each returns the buffer of y and the        *)
(* routines invoked.                                                        *)

\* the record of entering `name`, followed by what its body r did
Enter(name, flags, ops, r) == Result(r.buf, <<Entry(name, flags, ops)>> \o r.trace)

\* (*table[dsx]) (s, a, x, y)
CallMatVec(t, dsx, s, ma, vx, vy) ==
    Result(RunMatVec(TableRead(t, dsx), s, ma, vx, vy), <<TableCall(t, dsx, <<vx.n, vy.n>>)>>)

MultMatVec(ma, vx, vy) ==
    LET dsx == Min(vx.n, Size_matvec - 1)
    IN Enter("MultMatVec", <<>>, <<BareShape(ma), vx.n, vy.n>>,
             CallMatVec("dispatch_matvec", dsx, 1, Bare(ma), vx, vy))

\* variant of MultAddMatVec: clamps to the size of the table instead of its last index
MultAddMatVec_ClampAtSize(s, ma, vx, vy) ==
    LET dsx == Min(vx.n, Size_addmatvec)
    IN Enter("MultAddMatVec", <<s>>, <<BareShape(ma), vx.n, vy.n>>,
             CallMatVec("dispatch_addmatvec", dsx, s, Bare(ma), vx, vy))

MultAddMatVec(s, ma, vx, vy) ==
    LET dsx == Min(vx.n, Size_addmatvec - 1)
    IN Enter("MultAddMatVec", <<s>>, <<BareShape(ma), vx.n, vy.n>>,
             CallMatVec("dispatch_addmatvec", dsx, s, Bare(ma), vx, vy))

MultMatTransVec(ma, vx, vy) ==
    LET dsx == Min(vx.n, Size_mattransvec - 1)
    IN Enter("MultMatTransVec", <<>>, <<BareShape(ma), vx.n, vy.n>>,
             CallMatVec("dispatch_mattransvec", dsx, 1, Bare(ma), vx, vy))

MultAddMatTransVec(s, ma, vx, vy) ==
    LET dsx == Min(vx.n, Size_addmattransvec - 1)
    IN Enter("MultAddMatTransVec", <<s>>, <<BareShape(ma), vx.n, vy.n>>,
             CallMatVec("dispatch_addmattransvec", dsx, s, Bare(ma), vx, vy))

\* variant of MultAddMatVec on a column-major matrix: the scalar is not handed on
MultAddMatVecCol_UnitScale(s, ma, vx, vy) ==
    Enter("MultAddMatVec(ColMajor)", <<s>>, <<BareShape(ma), vx.n, vy.n>>,
          MultAddMatTransVec(1, Trans(ma), vx, vy))

\* MultAddMatVec on a column-major matrix
MultAddMatVecCol(s, ma, vx, vy) ==
    Enter("MultAddMatVec(ColMajor)", <<s>>, <<BareShape(ma), vx.n, vy.n>>,
          MultAddMatTransVec(s, Trans(ma), vx, vy))

\* variant of MultAddMatTransVecIndirect: dispatches on the length of x
MultAddMatTransVecIndirect_KeyX(s, ma, vx, vy, vind) ==
    LET sx == vx.n
    IN Enter("MultAddMatTransVecIndirect", <<s>>, <<BareShape(ma), vx.n, vy.n>>,
             IF sx <= 24
             THEN Result(IF TableRead("dispatch_addmattransvecI", sx)[1] = "addmattransvecI"
                         THEN RunIndirect(s, Bare(ma), vx, vy, vind) ELSE vy.buf,
                         <<TableCall("dispatch_addmattransvecI", sx, <<vx.n, vy.n>>)>>)
             ELSE Result(RunIndirect(s, Bare(ma), vx, vy, vind),
                         <<Direct("intern", "MultAddMatTransVecIndirect_intern", <<s>>)>>))

MultAddMatTransVecIndirect(s, ma, vx, vy, vind) ==
    LET sy == vy.n
    IN Enter("MultAddMatTransVecIndirect", <<s>>, <<BareShape(ma), vx.n, vy.n>>,
             IF sy <= 24
             THEN Result(IF TableRead("dispatch_addmattransvecI", sy)[1] = "addmattransvecI"
                         THEN RunIndirect(s, Bare(ma), vx, vy, vind) ELSE vy.buf,
                         <<TableCall("dispatch_addmattransvecI", sy, <<vx.n, vy.n>>)>>)
             ELSE Result(RunIndirect(s, Bare(ma), vx, vy, vind),
                         <<Direct("intern", "MultAddMatTransVecIndirect_intern", <<s>>)>>))

----------------------------------------------------------------------------
(* Matrix-matrix entry points.  Each returns the buffer of c and the        *)
(* routines invoked.                                                        *)

\* return without a call
Return(mc) == Result(mc.buf, <<>>)

\* (*table[wa]) (ha, waFull, wb, a, b, c)
CallABW(t, wa, ha, waFull, wb, ma, mb, mc) ==
    Result(RunABW(TableRead(t, wa), ha, waFull, wb, ma, mb, mc),
           <<TableCall(t, wa, <<ha, waFull, wb>>)>>)

\* (*table[wa]) (ha, hb, a, b, c)
CallABt(t, wa, ha, hb, ma, mb, mc) ==
    Result(RunABt(TableRead(t, wa), ha, hb, ma, mb, mc), <<TableCall(t, wa, <<ha, hb>>)>>)

MultMatMat(ma, mb, mc) ==
    Enter("MultMatMat", <<>>, <<Shape(ma), Shape(mb)>>,
          IF ma.h = 0 \/ mb.w = 0 THEN Return(mc)
          ELSE LET wa == Min(ma.w, Size_multAB - 1)
               IN CallABW("dispatch_multAB", wa, ma.h, ma.w, mb.w,
                          Bare(ma), Bare(mb), Bare(mc)))

MinusMultAB(ma, mb, mc) ==
    Enter("MinusMultAB", <<>>, <<Shape(ma), Shape(mb)>>,
          IF ma.h = 0 \/ mb.w = 0 THEN Return(mc)
          ELSE LET wa == Min(ma.w, Size_minusmultAB - 1)
               IN CallABW("dispatch_minusmultAB", wa, ma.h, ma.w, mb.w,
                          Bare(ma), Bare(mb), Bare(mc)))

\* variant of AddAB: reads the table of MultMatMat
AddAB_OverwriteTable(ma, mb, mc) ==
    Enter("AddAB", <<>>, <<Shape(ma), Shape(mb)>>,
          IF ma.h = 0 \/ mb.w = 0 THEN Return(mc)
          ELSE LET wa == Min(ma.w, Size_addAB - 1)
               IN CallABW("dispatch_multAB", wa, ma.h, ma.w, mb.w,
                          Bare(ma), Bare(mb), Bare(mc)))

AddAB(ma, mb, mc) ==
    Enter("AddAB", <<>>, <<Shape(ma), Shape(mb)>>,
          IF ma.h = 0 \/ mb.w = 0 THEN Return(mc)
          ELSE LET wa == Min(ma.w, Size_addAB - 1)
               IN CallABW("dispatch_addAB", wa, ma.h, ma.w, mb.w,
                          Bare(ma), Bare(mb), Bare(mc)))

\* variant of SubAB: hands the clamped index to the routine as the width of a
SubAB_ClampedWidth(ma, mb, mc) ==
    Enter("SubAB", <<>>, <<Shape(ma), Shape(mb)>>,
          IF ma.h = 0 \/ mb.w = 0 THEN Return(mc)
          ELSE LET wa == Min(ma.w, Size_subAB - 1)
               IN CallABW("dispatch_subAB", wa, ma.h, wa, mb.w,
                          Bare(ma), Bare(mb), Bare(mc)))

SubAB(ma, mb, mc) ==
    Enter("SubAB", <<>>, <<Shape(ma), Shape(mb)>>,
          IF ma.h = 0 \/ mb.w = 0 THEN Return(mc)
          ELSE LET wa == Min(ma.w, Size_subAB - 1)
               IN CallABW("dispatch_subAB", wa, ma.h, ma.w, mb.w,
                          Bare(ma), Bare(mb), Bare(mc)))

\* variant of MatMat_AtB: dispatches on the contraction dimension a.Height()
MatMat_AtB_KeyHeight(ADD, POS, ma, mb, mc) ==
    Enter("MatMat_AtB", <<ADD, POS>>, <<Shape(ma), Shape(mb)>>,
          IF ma.h = 0 \/ mb.w = 0 THEN Return(mc)
          ELSE LET wa == Min(ma.h, Size_atb - 1)
               IN CallABW(dispatch_atb(ADD, POS), wa, ma.h, ma.w, mb.w,
                          Bare(ma), Bare(mb), Bare(mc)))

\* MatMat_AtB<ADD,POS> (a, b, c): a is the operand to be transposed
MatMat_AtB(ADD, POS, ma, mb, mc) ==
    Enter("MatMat_AtB", <<ADD, POS>>, <<Shape(ma), Shape(mb)>>,
          IF ma.h = 0 \/ mb.w = 0 THEN Return(mc)
          ELSE LET wa == Min(ma.w, Size_atb - 1)
               IN CallABW(dispatch_atb(ADD, POS), wa, ma.h, ma.w, mb.w,
                          Bare(ma), Bare(mb), Bare(mc)))

\* variant of MultABt: every width is looked up in the table, no fallback
MultABt_NoFallback(ma, mb, mc) ==
    LET wa == ma.w
    IN Enter("MultABt", <<>>, <<Shape(ma), Shape(mb)>>,
             CallABt("dispatch_abt", wa, ma.h, mb.h, Bare(ma), Bare(mb), Bare(mc)))

MultABt(ma, mb, mc) ==
    LET wa == ma.w
    IN Enter("MultABt", <<>>, <<Shape(ma), Shape(mb)>>,
             IF wa <= 24
             THEN CallABt("dispatch_abt", wa, ma.h, mb.h, Bare(ma), Bare(mb), Bare(mc))
             ELSE Result(RunABtFull(FALSE, TRUE, ma, mb, Bare(mc)),
                         <<Direct("intern", "MultABt_intern", <<>>)>>))

\* variant of AddABt: reads the table of MultABt
AddABt_OverwriteTable(ma, mb, mc) ==
    LET wa == ma.w
    IN Enter("AddABt", <<>>, <<Shape(ma), Shape(mb)>>,
             IF wa <= 24
             THEN CallABt("dispatch_abt", wa, ma.h, mb.h, Bare(ma), Bare(mb), Bare(mc))
             ELSE Result(RunABtFull(FALSE, TRUE, ma, mb, Bare(mc)),
                         <<Direct("intern", "MultABt_intern", <<>>)>>))

\* variant of AddABt: width 24 already goes to AddABt_intern
AddABt_ThresholdBelow(ma, mb, mc) ==
    LET wa == ma.w
    IN Enter("AddABt", <<>>, <<Shape(ma), Shape(mb)>>,
             IF wa < 24
             THEN CallABt("dispatch_addabt", wa, ma.h, mb.h, Bare(ma), Bare(mb), Bare(mc))
             ELSE Result(RunABtFull(TRUE, TRUE, ma, mb, Bare(mc)),
                         <<Direct("intern", "AddABt_intern", <<>>)>>))

AddABt(ma, mb, mc) ==
    LET wa == ma.w
    IN Enter("AddABt", <<>>, <<Shape(ma), Shape(mb)>>,
             IF wa <= 24
             THEN CallABt("dispatch_addabt", wa, ma.h, mb.h, Bare(ma), Bare(mb), Bare(mc))
             ELSE Result(RunABtFull(TRUE, TRUE, ma, mb, Bare(mc)),
                         <<Direct("intern", "AddABt_intern", <<>>)>>))

\* entry (i,j) lies in triangle tri ("lower" or "upper"), the diagonal included
InTriangle(tri, i, j) == IF tri = "lower" THEN j <= i ELSE i <= j

\* extern: c += a * Trans(b) in the entries of one triangle of c, which one is left
\* to the routine; the other entries are not computed
AddABtSym(tri, ma, mb, mc) ==
    Enter("AddABtSym", <<tri>>, <<Shape(ma), Shape(mb)>>,
          Result(Store(mc, ma.h, mb.h,
                       [ij \in Idx(ma.h, mb.h) |->
                           IF InTriangle(tri, ij[1], ij[2])
                           THEN At(mc, ij[1], ij[2]) + Prod_ABt(ma, mb, ma.w, ij[1], ij[2])
                           ELSE At(mc, ij[1], ij[2])]),
                 <<>>))

\* extern, not dispatched in the header
MinusMultABt(ma, mb, mc) ==
    Enter("MinusMultABt", <<>>, <<Shape(ma), Shape(mb)>>,
          Result(RunABtFull(FALSE, FALSE, ma, mb, Bare(mc)), <<>>))

SubABt(ma, mb, mc) ==
    Enter("SubABt", <<>>, <<Shape(ma), Shape(mb)>>,
          Result(RunABtFull(TRUE, FALSE, ma, mb, Bare(mc)), <<>>))

----------------------------------------------------------------------------
(* Scaling of rows and columns, in place.  Each returns the buffer of a and *)
(* the routines entered.  diag is a bare vector: no size is passed.         *)

\* extern: column j of a is multiplied by diag[j]
ScaleCols(ma, vd) ==
    Enter("ScaleCols", <<>>, <<Shape(ma)>>,
          Result(Store(ma, ma.h, ma.w,
                       [ij \in Idx(ma.h, ma.w) |->
                           RMul(At(ma, ij[1], ij[2]), VAt(vd, ij[2]))]),
                 <<>>))

\* variant of ScaleRows: the view is handed on without Trans
ScaleRows_NoTrans(ma, vd) ==
    Enter("ScaleRows", <<>>, <<Shape(ma)>>, ScaleCols(ma, vd))

ScaleRows(ma, vd) ==
    Enter("ScaleRows", <<>>, <<Shape(ma)>>, ScaleCols(Trans(ma), vd))

----------------------------------------------------------------------------
(* Diagonal-weighted updates.  Each returns the buffer of c and the         *)
(* routines entered.                                                        *)

\* extern: c -= Trans(a) * diag(diag) * b
SubAtDB(ma, vd, mb, mc) ==
    Enter("SubAtDB", <<>>, <<Shape(ma), Shape(mb), Shape(mc)>>,
          Result(Store(mc, mc.h, mc.w,
                       [ij \in Idx(mc.h, mc.w) |->
                           At(mc, ij[1], ij[2])
                           - SumTo(ma.h, [l \in 0..(ma.h - 1) |->
                                 At(ma, l, ij[1]) * VAt(vd, l) * At(mb, l, ij[2])])]),
                 <<>>))

\* extern, row-major operands: c -= a * diag(diag) * Trans(b)
SubADBt(ma, vd, mb, mc) ==
    Enter("SubADBt", <<>>, <<Shape(ma), Shape(mb), Shape(mc)>>,
          Result(Store(mc, mc.h, mc.w,
                       [ij \in Idx(mc.h, mc.w) |->
                           At(mc, ij[1], ij[2])
                           - SumTo(ma.w, [l \in 0..(ma.w - 1) |->
                                 At(ma, ij[1], l) * VAt(vd, l) * At(mb, ij[2], l)])]),
                 <<>>))

\* variant of SubADBt on column-major operands: the weights are not handed on
SubADBtCol_UnitDiag(ma, vd, mb, mc) ==
    Enter("SubADBt(ColMajor)", <<>>, <<Shape(ma), Shape(mb), Shape(mc)>>,
          SubAtDB(Trans(mb), Vec([l \in 1..vd.n |-> 1]), Trans(ma), Trans(mc)))

\* SubADBt on column-major a, b and c
SubADBtCol(ma, vd, mb, mc) ==
    Enter("SubADBt(ColMajor)", <<>>, <<Shape(ma), Shape(mb), Shape(mc)>>,
          SubAtDB(Trans(mb), vd, Trans(ma), Trans(mc)))

----------------------------------------------------------------------------
(* Schur complement (static condensation) of a under the bit-set used: the  *)
(* indices marked in used are eliminated, the others are kept.              *)

\* the indices of u, counted from 0, whose flag is v, in increasing order
Indices(u, v) == SelectSeq([i \in 1..Len(u) |-> i - 1], LAMBDA i : u[i + 1] = v)

\* progressive elimination on the m rows of the scratch block M = [A_ee | A_ek], a
\* function on Idx(m, m + q): column after column a row with a non-zero pivot is
\* brought up, scaled, and subtracted from the other rows.  ok is FALSE when no
\* pivot is left (A_ee is singular).
RECURSIVE Eliminate(_, _, _)
Eliminate(M, col, m) ==
    IF col = m THEN [ok |-> TRUE, M |-> M]
    ELSE LET cand == {r \in col..(m - 1) : M[r, col][1] # 0}
         IN IF cand = {} THEN [ok |-> FALSE, M |-> M]
            ELSE LET r == CHOOSE r1 \in cand : \A r2 \in cand : r1 <= r2
                     sw == [ij \in DOMAIN M |->
                               IF ij[1] = col THEN M[r, ij[2]]
                               ELSE IF ij[1] = r THEN M[col, ij[2]]
                               ELSE M[ij]]
                     nx == [ij \in DOMAIN M |->
                               IF ij[1] = col THEN RDiv(sw[ij], sw[col, col])
                               ELSE RSub(sw[ij],
                                         RMul(sw[ij[1], col],
                                              RDiv(sw[col, ij[2]], sw[col, col])))]
                 IN Eliminate(nx, col + 1, m)

\* variant of CalcSchurComplement: the marked indices are kept, the others eliminated
CalcSchurComplement_KeepsMarked(ma, ms, u) ==
    LET ke == Indices(u, TRUE)
        el == Indices(u, FALSE)
        m == Len(el)
        q == Len(ke)
        M0 == [ij \in Idx(m, m + q) |->
                  IF ij[2] < m THEN At(ma, el[ij[1] + 1], el[ij[2] + 1])
                               ELSE At(ma, el[ij[1] + 1], ke[ij[2] - m + 1])]
        g == Eliminate(M0, 0, m)
    IN Enter("CalcSchurComplement", <<>>, <<Shape(ma), Shape(ms)>>,
             Result(Store(ms, q, q,
                          [ij \in Idx(q, q) |->
                              IF g.ok
                              THEN RSub(At(ma, ke[ij[1] + 1], ke[ij[2] + 1]),
                                        RSumTo(m, [r \in 0..(m - 1) |->
                                            RMul(At(ma, ke[ij[1] + 1], el[r + 1]),
                                                 g.M[r, m + ij[2]])]))
                              ELSE NaN]),
                    <<>>))

\* variant of CalcSchurComplement: the kept block is copied, nothing is eliminated
CalcSchurComplement_NoElimination(ma, ms, u) ==
    LET ke == Indices(u, FALSE)
        q == Len(ke)
    IN Enter("CalcSchurComplement", <<>>, <<Shape(ma), Shape(ms)>>,
             Result(Store(ms, q, q,
                          [ij \in Idx(q, q) |-> At(ma, ke[ij[1] + 1], ke[ij[2] + 1])]),
                    <<>>))

\* extern: S = A_kk - A_ke * inverse(A_ee) * A_ek, computed by elimination in scratch
\* memory; a is read only.  A singular A_ee leaves NaN in S.
CalcSchurComplement(ma, ms, u) ==
    LET ke == Indices(u, FALSE)
        el == Indices(u, TRUE)
        m == Len(el)
        q == Len(ke)
        M0 == [ij \in Idx(m, m + q) |->
                  IF ij[2] < m THEN At(ma, el[ij[1] + 1], el[ij[2] + 1])
                               ELSE At(ma, el[ij[1] + 1], ke[ij[2] - m + 1])]
        g == Eliminate(M0, 0, m)
    IN Enter("CalcSchurComplement", <<>>, <<Shape(ma), Shape(ms)>>,
             Result(Store(ms, q, q,
                          [ij \in Idx(q, q) |->
                              IF g.ok
                              THEN RSub(At(ma, ke[ij[1] + 1], ke[ij[2] + 1]),
                                        RSumTo(m, [r \in 0..(m - 1) |->
                                            RMul(At(ma, ke[ij[1] + 1], el[r + 1]),
                                                 g.M[r, m + ij[2]])]))
                              ELSE NaN]),
                    <<>>))

----------------------------------------------------------------------------
(* Policy-composition layer: NgGEMM and NgGEMV *)

\* body of the primary NgGEMM template: c = / += / -= (+-1)*a*b by expression templates
NgGEMMGeneric(ADD, POS, ma, mb, mc) ==
    Result(Store(mc, mc.h, mc.w,
                 [ij \in Idx(mc.h, mc.w) |->
                     Update(ADD, POS, At(mc, ij[1], ij[2]),
                            Prod_AB(ma, mb, ma.w, ij[1], ij[2]))]),
           <<Direct("generic", "NgGEMM", <<ADD, POS>>)>>)

\* the explicit specializations of NgGEMM with row-major a and b
NgGEMM_RowRow(ADD, POS, ma, mb, mc) ==
    IF ~ADD /\ POS THEN MultMatMat(ma, mb, mc)
    ELSE IF ADD /\ POS THEN AddAB(ma, mb, mc)
    ELSE IF ADD /\ ~POS THEN SubAB(ma, mb, mc)
    ELSE MinusMultAB(ma, mb, mc)

\* the explicit specializations of NgGEMM with row-major a and column-major b
NgGEMM_RowCol(ADD, POS, ma, mb, mc) ==
    IF ~ADD /\ ~POS THEN MinusMultABt(ma, Trans(mb), mc)
    ELSE IF ~ADD /\ POS THEN MultABt(ma, Trans(mb), mc)
    ELSE IF ADD /\ ~POS THEN SubABt(ma, Trans(mb), mc)
    ELSE AddABt(ma, Trans(mb), mc)

\* variant of NgGEMM_ColRow: the <true,false> specialization passes <true,true>
NgGEMM_ColRow_FlagsMixed(ADD, POS, ma, mb, mc) ==
    IF ~ADD /\ POS THEN MatMat_AtB(FALSE, TRUE, Trans(ma), mb, mc)
    ELSE IF ADD /\ POS THEN MatMat_AtB(TRUE, TRUE, Trans(ma), mb, mc)
    ELSE IF ADD /\ ~POS THEN MatMat_AtB(TRUE, TRUE, Trans(ma), mb, mc)
    ELSE MatMat_AtB(FALSE, FALSE, Trans(ma), mb, mc)

\* the explicit specializations of NgGEMM with column-major a and row-major b
NgGEMM_ColRow(ADD, POS, ma, mb, mc) ==
    IF ~ADD /\ POS THEN MatMat_AtB(FALSE, TRUE, Trans(ma), mb, mc)
    ELSE IF ADD /\ POS THEN MatMat_AtB(TRUE, TRUE, Trans(ma), mb, mc)
    ELSE IF ADD /\ ~POS THEN MatMat_AtB(TRUE, FALSE, Trans(ma), mb, mc)
    ELSE MatMat_AtB(FALSE, FALSE, Trans(ma), mb, mc)

\* variant of NgGEMM_RowC: no specialization for a column-major a
NgGEMM_RowC_NoColRow(ADD, POS, ma, mb, mc) ==
    IF ma.ord = "Row" /\ mb.ord = "Row" THEN NgGEMM_RowRow(ADD, POS, ma, mb, mc)
    ELSE IF ma.ord = "Row" /\ mb.ord = "Col" THEN NgGEMM_RowCol(ADD, POS, ma, mb, mc)
    ELSE NgGEMMGeneric(ADD, POS, ma, mb, mc)

\* NgGEMM<ADD,POS> (a, b, c) with a row-major c: the specialization declared for the
\* orders of a and b, or the body of the primary template when none is declared
NgGEMM_RowC(ADD, POS, ma, mb, mc) ==
    IF ma.ord = "Row" /\ mb.ord = "Row" THEN NgGEMM_RowRow(ADD, POS, ma, mb, mc)
    ELSE IF ma.ord = "Row" /\ mb.ord = "Col" THEN NgGEMM_RowCol(ADD, POS, ma, mb, mc)
    ELSE IF ma.ord = "Col" /\ mb.ord = "Row" THEN NgGEMM_ColRow(ADD, POS, ma, mb, mc)
    ELSE NgGEMMGeneric(ADD, POS, ma, mb, mc)

\* variant of NgGEMM: no overload for a column-major c, which is handed on as it is
NgGEMM_NoColOverload(ADD, POS, ma, mb, mc) ==
    Enter("NgGEMM", <<ADD, POS>>, <<Shape(ma), Shape(mb), Shape(mc)>>,
          NgGEMM_RowC(ADD, POS, ma, mb, mc))

\* variant of NgGEMM: the overload for a column-major c is entered again by its own call
NgGEMM_ReentersColOverload(ADD, POS, ma, mb, mc) ==
    LET r == IF mc.ord = "Col"
             THEN Enter("NgGEMM", <<ADD, POS>>, <<Shape(ma), Shape(mb), Shape(mc)>>,
                        Enter("NgGEMM", <<ADD, POS>>,
                              <<Shape(Trans(mb)), Shape(Trans(ma)), Shape(Trans(mc))>>,
                              NgGEMM_RowC(ADD, POS, Trans(mb), Trans(ma), Trans(mc))))
             ELSE NgGEMM_RowC(ADD, POS, ma, mb, mc)
    IN Enter("NgGEMM", <<ADD, POS>>, <<Shape(ma), Shape(mb), Shape(mc)>>, r)

\* NgGEMM<ADD,POS> (a, b, c): overload resolution on the order of c
RECURSIVE NgGEMM(_, _, _, _, _)
NgGEMM(ADD, POS, ma, mb, mc) ==
    LET r == IF mc.ord = "Col"
             THEN NgGEMM(ADD, POS, Trans(mb), Trans(ma), Trans(mc))
             ELSE NgGEMM_RowC(ADD, POS, ma, mb, mc)
    IN Enter("NgGEMM", <<ADD, POS>>, <<Shape(ma), Shape(mb), Shape(mc)>>, r)

\* body of the primary NgGEMV template: y = / += / -= (+-1)*a*x
NgGEMVGeneric(ADD, POS, ma, vx, vy) ==
    Result([i \in 1..vy.n |->
              Update(ADD, POS, vy.buf[i],
                     SumTo(ma.w, [j \in 0..(ma.w - 1) |-> At(ma, i - 1, j) * VAt(vx, j)]))],
           <<Direct("generic", "NgGEMV", <<ADD, POS>>)>>)

\* variant of NgGEMV: no <true,false> specialization for a column-major a
NgGEMV_NoColSub(ADD, POS, ma, vx, vy) ==
    LET r == IF ~ADD /\ POS
             THEN (IF ma.ord = "Row" THEN MultMatVec(ma, vx, vy)
                                     ELSE MultMatTransVec(Trans(ma), vx, vy))
             ELSE IF ADD /\ POS
             THEN (IF ma.ord = "Row" THEN MultAddMatVec(1, ma, vx, vy)
                                     ELSE MultAddMatTransVec(1, Trans(ma), vx, vy))
             ELSE IF ADD /\ ~POS /\ ma.ord = "Row"
             THEN MultAddMatVec(-1, ma, vx, vy)
             ELSE NgGEMVGeneric(ADD, POS, ma, vx, vy)
    IN Enter("NgGEMV", <<ADD, POS>>, <<Shape(ma), vx.n, vy.n>>, r)

\* NgGEMV<ADD,POS> (a, x, y): the specialization declared for the flags and the
\* order of a, or the body of the primary template when none is declared
NgGEMV(ADD, POS, ma, vx, vy) ==
    LET r == IF ~ADD /\ POS
             THEN (IF ma.ord = "Row" THEN MultMatVec(ma, vx, vy)
                                     ELSE MultMatTransVec(Trans(ma), vx, vy))
             ELSE IF ADD /\ POS
             THEN (IF ma.ord = "Row" THEN MultAddMatVec(1, ma, vx, vy)
                                     ELSE MultAddMatTransVec(1, Trans(ma), vx, vy))
             ELSE IF ADD /\ ~POS
             THEN (IF ma.ord = "Row" THEN MultAddMatVec(-1, ma, vx, vy)
                                     ELSE MultAddMatTransVec(-1, Trans(ma), vx, vy))
             ELSE NgGEMVGeneric(ADD, POS, ma, vx, vy)
    IN Enter("NgGEMV", <<ADD, POS>>, <<Shape(ma), vx.n, vy.n>>, r)

----------------------------------------------------------------------------
(* Operands of a call *)

\* scalars passed to the scaled products
Scalars == {-1, 2}

\* entry patterns: a and b take values in -2..2 and -1..1, c, y and diag are nowhere 0
EntA(seed, i, j) == ((seed + i + 2 * j) % 5) - 2
EntB(seed, i, j) == ((2 * seed + 3 * i + j) % 3) - 1
EntC(seed, i, j) == 1 + ((seed + i + 2 * j) % 3)
EntX(seed, j) == ((seed + 2 * j) % 3) - 1
EntY(seed, i) == 1 + ((seed + i) % 2)
EntDiag(seed, l) == 1 + ((seed + 2 * l) % 3)

\* a packed view of the h x w matrix with entries f[i,j]
MakeView(h, w, ord, f) ==
    LET z == View(h, w, ord, [p \in 1..(h * w) |-> 0])
    IN View(h, w, ord, Store(z, h, w, f))

\* shapes (h, k, w): one dimension sweeps over the dispatch keys, the others are small
Shapes ==
    {<<h, k, w>> : h \in 0..MaxOuter, k \in 0..MaxKey, w \in 0..MaxOuter}
    \cup {<<h, k, w>> : h \in 0..MaxKey, k \in 0..MaxOuter, w \in 0..MaxOuter}

Init ==
    \E sh \in Shapes, seed \in 0..MaxSeed, orda \in Orders, ordb \in Orders, ordc \in Orders :
        /\ tables = InitTables
        /\ a = MakeView(sh[1], sh[2], orda,
                        [ij \in Idx(sh[1], sh[2]) |-> EntA(seed, ij[1], ij[2])])
        /\ b = MakeView(sh[2], sh[3], ordb,
                        [ij \in Idx(sh[2], sh[3]) |-> EntB(seed, ij[1], ij[2])])
        /\ c = MakeView(sh[1], sh[3], ordc,
                        [ij \in Idx(sh[1], sh[3]) |-> EntC(seed, ij[1], ij[2])])
        /\ x = Vec([j \in 1..sh[2] |-> EntX(seed, j - 1)])
        /\ y = Vec([i \in 1..sh[1] |-> EntY(seed, i - 1)])
        /\ ind = [i \in 1..sh[1] |-> sh[1] - i]
        /\ diag = Vec([l \in 1..sh[2] |-> EntDiag(seed, l - 1)])
        /\ used = <<>>
        /\ S = View(0, 0, "Row", <<>>)
        /\ c0 = c.buf
        /\ y0 = y.buf
        /\ call = [op |-> "none", ADD |-> FALSE, POS |-> FALSE, s |-> 0]
        /\ trace = <<>>
        /\ pc = "ready"
        /\ IdleEig
        /\ IdleMv
        /\ calls = 0
        /\ IdleHost

----------------------------------------------------------------------------
(* Calls *)

Call(op, ADD, POS, s) == [op |-> op, ADD |-> ADD, POS |-> POS, s |-> s]

\* a call that writes y
ReturnY(cl, r) ==
    /\ pc = "ready"
    /\ pc' = "done"
    /\ call' = cl
    /\ y' = [y EXCEPT !.buf = r.buf]
    /\ trace' = r.trace
    /\ UNCHANGED <<tables, a, b, c, x, ind, diag, used, S, c0, y0, eigVars, mvVars, calls, hostVars>>

\* variant of ReturnC: the call also stores a routine in a table
ReturnC_WritesTable(cl, r) ==
    /\ pc = "ready"
    /\ pc' = "done"
    /\ call' = cl
    /\ c' = [c EXCEPT !.buf = r.buf]
    /\ trace' = r.trace
    /\ tables' = [tables EXCEPT !.dispatch_abt[1] = <<"addabt", 0>>]
    /\ UNCHANGED <<a, b, x, y, ind, diag, used, S, c0, y0, eigVars, mvVars, calls, hostVars>>

\* a call that writes c
ReturnC(cl, r) ==
    /\ pc = "ready"
    /\ pc' = "done"
    /\ call' = cl
    /\ c' = [c EXCEPT !.buf = r.buf]
    /\ trace' = r.trace
    /\ UNCHANGED <<tables, a, b, x, y, ind, diag, used, S, c0, y0, eigVars, mvVars, calls, hostVars>>

MultMatVecCall ==
    /\ a.ord = "Row"
    /\ ReturnY(Call("MultMatVec", FALSE, TRUE, 1), MultMatVec(a, x, y))

MultAddMatVecCall ==
    \E s \in Scalars :
        /\ a.ord = "Row"
        /\ ReturnY(Call("MultAddMatVec", TRUE, TRUE, s), MultAddMatVec(s, a, x, y))

MultAddMatVecColCall ==
    \E s \in Scalars :
        /\ a.ord = "Col"
        /\ ReturnY(Call("MultAddMatVec(ColMajor)", TRUE, TRUE, s), MultAddMatVecCol(s, a, x, y))

MultMatTransVecCall ==
    /\ a.ord = "Col"
    /\ ReturnY(Call("MultMatTransVec", FALSE, TRUE, 1), MultMatTransVec(Trans(a), x, y))

MultAddMatTransVecCall ==
    \E s \in Scalars :
        /\ a.ord = "Col"
        /\ ReturnY(Call("MultAddMatTransVec", TRUE, TRUE, s),
                   MultAddMatTransVec(s, Trans(a), x, y))

MultAddMatTransVecIndirectCall ==
    \E s \in Scalars :
        /\ a.ord = "Col"
        /\ ReturnY(Call("MultAddMatTransVecIndirect", TRUE, TRUE, s),
                   MultAddMatTransVecIndirect(s, Trans(a), x, y, ind))

RowMajorABC == a.ord = "Row" /\ b.ord = "Row" /\ c.ord = "Row"

MultMatMatCall ==
    /\ RowMajorABC
    /\ ReturnC(Call("MultMatMat", FALSE, TRUE, 1), MultMatMat(a, b, c))

MinusMultABCall ==
    /\ RowMajorABC
    /\ ReturnC(Call("MinusMultAB", FALSE, FALSE, 1), MinusMultAB(a, b, c))

AddABCall ==
    /\ RowMajorABC
    /\ ReturnC(Call("AddAB", TRUE, TRUE, 1), AddAB(a, b, c))

SubABCall ==
    /\ RowMajorABC
    /\ ReturnC(Call("SubAB", TRUE, FALSE, 1), SubAB(a, b, c))

MatMat_AtBCall ==
    \E ADD \in BOOL, POS \in BOOL :
        /\ a.ord = "Col" /\ b.ord = "Row" /\ c.ord = "Row"
        /\ ReturnC(Call("MatMat_AtB", ADD, POS, 1), MatMat_AtB(ADD, POS, Trans(a), b, c))

MultABtCall ==
    /\ a.ord = "Row" /\ b.ord = "Col" /\ c.ord = "Row"
    /\ ReturnC(Call("MultABt", FALSE, TRUE, 1), MultABt(a, Trans(b), c))

AddABtCall ==
    /\ a.ord = "Row" /\ b.ord = "Col" /\ c.ord = "Row"
    /\ ReturnC(Call("AddABt", TRUE, TRUE, 1), AddABt(a, Trans(b), c))

\* b of the state is k x w; the routine takes the w x k matrix Trans(b)
SubADBtCall ==
    /\ a.ord = "Row" /\ b.ord = "Col" /\ c.ord = "Row"
    /\ ReturnC(Call("SubADBt", TRUE, FALSE, 1), SubADBt(a, diag, Trans(b), c))

SubADBtColCall ==
    /\ a.ord = "Col" /\ b.ord = "Row" /\ c.ord = "Col"
    /\ ReturnC(Call("SubADBt(ColMajor)", TRUE, FALSE, 1), SubADBtCol(a, diag, Trans(b), c))

NgGEMMCall ==
    \E ADD \in BOOL, POS \in BOOL :
        ReturnC(Call("NgGEMM", ADD, POS, 1), NgGEMM(ADD, POS, a, b, c))

NgGEMVCall ==
    \E ADD \in BOOL, POS \in BOOL :
        ReturnY(Call("NgGEMV", ADD, POS, 1), NgGEMV(ADD, POS, a, x, y))

Next ==
    \/ MultMatVecCall
    \/ MultAddMatVecCall
    \/ MultAddMatVecColCall
    \/ MultMatTransVecCall
    \/ MultAddMatTransVecCall
    \/ MultAddMatTransVecIndirectCall
    \/ MultMatMatCall
    \/ MinusMultABCall
    \/ AddABCall
    \/ SubABCall
    \/ MatMat_AtBCall
    \/ MultABtCall
    \/ AddABtCall
    \/ SubADBtCall
    \/ SubADBtColCall
    \/ NgGEMMCall
    \/ NgGEMVCall

Spec == Init /\ [][Next]_vars

----------------------------------------------------------------------------
(* Sequences of calls: after a call has returned another entry point is      *)
(* called on the operands as the first call left them.  A call is one step,  *)
(* so a run of this specification is also an interleaving of the calls of    *)
(* several threads working on the same operands.                             *)

\* number of further calls after the first one
MaxCalls == 1

InitCalls ==
    /\ Init
    /\ <<a.h, a.w, b.w>> \in {<<1, 1, 1>>, <<2, 1, 2>>}

\* the call has returned; the next call starts from the operands as they are now
NextCall ==
    /\ pc = "done"
    /\ calls < MaxCalls
    /\ pc' = "ready"
    /\ calls' = calls + 1
    /\ c0' = c.buf
    /\ y0' = y.buf
    /\ UNCHANGED <<tables, a, b, c, x, y, ind, diag, used, S, call, trace, eigVars, mvVars, hostVars>>

NextCalls ==
    \/ Next
    \/ NextCall

SpecCalls == InitCalls /\ [][NextCalls]_vars

----------------------------------------------------------------------------
(* Operands and calls of the scaling and Schur-complement routines: the     *)
(* entries are fractions.  c is the n x w matrix scaled in place, diag the  *)
(* weights, a the n x n matrix condensed into S under the bit-set used.     *)

\* entry patterns: c and diag are nowhere 0; a is symmetric for an even seed
EntScaled(seed, i, j) == Rat(1 + ((seed + i + 2 * j) % 3), 1 + ((i + j) % 2))
EntWeight(seed, i) == Rat(((seed + i) % 3) - 3, 1 + (i % 2))
EntCondensed(seed, i, j) ==
    IF seed % 2 = 0 THEN Rat(IF i = j THEN (i + (seed \div 2)) % 3 ELSE 1 + ((i + j) % 2), 1)
                    ELSE Rat(((seed + 2 * i + j) % 4) - 1, 1)

\* number of indices not marked in u
Unmarked(u) == Cardinality({i \in 1..Len(u) : ~u[i]})

EmptyView == View(0, 0, "Row", <<>>)

InitDense ==
    \E n \in 0..MaxDim, w \in 0..MaxDim, seed \in 0..MaxSeed, ordc \in Orders :
      \E u \in [1..n -> BOOL] :
        /\ tables = InitTables
        /\ a = MakeView(n, n, "Row", [ij \in Idx(n, n) |-> EntCondensed(seed, ij[1], ij[2])])
        /\ b = EmptyView
        /\ c = MakeView(n, w, ordc, [ij \in Idx(n, w) |-> EntScaled(seed, ij[1], ij[2])])
        /\ x = Vec(<<>>)
        /\ y = Vec(<<>>)
        /\ ind = <<>>
        /\ diag = Vec([i \in 1..MaxDim |-> EntWeight(seed, i - 1)])
        /\ used = u
        /\ S = MakeView(Unmarked(u), Unmarked(u), "Row",
                        [ij \in Idx(Unmarked(u), Unmarked(u)) |-> Rat(0, 1)])
        /\ c0 = c.buf
        /\ y0 = y.buf
        /\ call = [op |-> "none", ADD |-> FALSE, POS |-> FALSE, s |-> 0]
        /\ trace = <<>>
        /\ pc = "ready"
        /\ IdleEig
        /\ IdleMv
        /\ calls = 0
        /\ IdleHost

ScaleRowsCall ==
    ReturnC(Call("ScaleRows", FALSE, TRUE, 1), ScaleRows(c, diag))

\* the entrywise inverse 1/d
Inverse(vd) == Vec([i \in 1..vd.n |-> RDiv(Rat(1, 1), vd.buf[i])])

\* after ScaleRows(c, diag) the caller scales back: ScaleCols(Trans(c), 1/diag)
ScaleColsInverseCall ==
    /\ pc = "done"
    /\ call.op = "ScaleRows"
    /\ LET r == ScaleCols(Trans(c), Inverse(diag))
       IN /\ c' = [c EXCEPT !.buf = r.buf]
          /\ trace' = r.trace
    /\ call' = Call("ScaleCols", FALSE, TRUE, 1)
    /\ UNCHANGED <<tables, a, b, x, y, ind, diag, used, S, c0, y0, pc, eigVars, mvVars, calls, hostVars>>

CalcSchurComplementCall ==
    /\ pc = "ready"
    /\ pc' = "done"
    /\ call' = Call("CalcSchurComplement", FALSE, TRUE, 1)
    /\ LET r == CalcSchurComplement(a, S, used)
       IN /\ S' = [S EXCEPT !.buf = r.buf]
          /\ trace' = r.trace
    /\ UNCHANGED <<tables, a, b, c, x, y, ind, diag, used, c0, y0, eigVars, mvVars, calls, hostVars>>

NextDense ==
    \/ ScaleRowsCall
    \/ ScaleColsInverseCall
    \/ CalcSchurComplementCall

SpecDense == InitDense /\ [][NextDense]_vars

----------------------------------------------------------------------------
(* Operands and calls of the symmetric update: a is n x k, Trans(b) is      *)
(* n x k and c is n x n, all row-major.  With sym the operands are          *)
(* symmetric-compatible: Trans(b) is a with its columns weighted, so that   *)
(* a * b is symmetric, and c is symmetric.                                  *)

EntBSym(seed, l, j) == EntA(seed, j, l) * (1 + (l % 2))
EntCSym(seed, i, j) == 1 + ((seed + i + j) % 3)

InitSym ==
    \E n \in 0..MaxDim, k \in 0..MaxKey, seed \in 0..MaxSeed, sym \in BOOL :
        /\ tables = InitTables
        /\ a = MakeView(n, k, "Row", [ij \in Idx(n, k) |-> EntA(seed, ij[1], ij[2])])
        /\ b = MakeView(k, n, "Col",
                        [ij \in Idx(k, n) |-> IF sym THEN EntBSym(seed, ij[1], ij[2])
                                                     ELSE EntB(seed, ij[1], ij[2])])
        /\ c = MakeView(n, n, "Row",
                        [ij \in Idx(n, n) |-> IF sym THEN EntCSym(seed, ij[1], ij[2])
                                                     ELSE EntC(seed, ij[1], ij[2])])
        /\ x = Vec(<<>>)
        /\ y = Vec(<<>>)
        /\ ind = <<>>
        /\ diag = Vec(<<>>)
        /\ used = <<>>
        /\ S = EmptyView
        /\ c0 = c.buf
        /\ y0 = y.buf
        /\ call = [op |-> "none", ADD |-> FALSE, POS |-> FALSE, s |-> 0]
        /\ trace = <<>>
        /\ pc = "ready"
        /\ IdleEig
        /\ IdleMv
        /\ calls = 0
        /\ IdleHost

AddABtSymCall ==
    \E tri \in {"lower", "upper"} :
        ReturnC(Call("AddABtSym", TRUE, TRUE, 1), AddABtSym(tri, a, Trans(b), c))

\* the caller copies the computed triangle of c onto the other one
Mirror(tri, mc) ==
    Store(mc, mc.h, mc.w,
          [ij \in Idx(mc.h, mc.w) |->
              IF InTriangle(tri, ij[1], ij[2]) THEN At(mc, ij[1], ij[2])
                                               ELSE At(mc, ij[2], ij[1])])

MirrorCall ==
    /\ pc = "done"
    /\ call.op = "AddABtSym"
    /\ c' = [c EXCEPT !.buf = Mirror(trace[1].flags[1], c)]
    /\ call' = Call("Mirror", TRUE, TRUE, 1)
    /\ UNCHANGED <<tables, a, b, x, y, ind, diag, used, S, c0, y0, trace, pc, eigVars, mvVars, calls, hostVars>>

NextSym ==
    \/ AddABtSymCall
    \/ MirrorCall
    \/ AddABtCall

SpecSym == InitSym /\ [][NextSym]_vars

----------------------------------------------------------------------------
(* Symmetric eigen-decomposition by cyclic Jacobi rotations.  The routine   *)
(* copies mat into scratch, accumulates the rotations in eigenvecs, repeats *)
(* sweeps until the off-diagonal entries vanish or the iteration cap is     *)
(* reached, and returns the diagonal sorted ascending.  Entries are exact   *)
(* fractions; the operands are chosen so that every square root is exact.   *)

\* cap on the number of rotation sweeps
MaxSweeps == 2

\* the operands of the dispatch layer when no kernel call is made
kernelVars == <<tables, a, b, c, x, y, ind, diag, used, S, c0, y0, trace, calls>>

blasVars == <<kernelVars, hostVars>>

IdleKernels ==
    /\ tables = InitTables
    /\ a = EmptyView /\ b = EmptyView /\ c = EmptyView
    /\ x = Vec(<<>>) /\ y = Vec(<<>>)
    /\ ind = <<>>
    /\ diag = Vec(<<>>)
    /\ used = <<>>
    /\ S = EmptyView
    /\ c0 = <<>> /\ y0 = <<>>
    /\ trace = <<>>
    /\ calls = 0

IdleBlas == IdleKernels /\ IdleHost

RNeg(p) == <<0 - p[1], p[2]>>
RAbs(p) == <<Abs(p[1]), p[2]>>
RLess(p, q) == p[1] * q[2] < q[1] * p[2]

\* the non-negative integer whose square is n
ISqrt(n) == CHOOSE r \in 0..n : r * r = n
\* square root of a fraction whose numerator and denominator are squares
RSqrt(p) == <<ISqrt(p[1]), ISqrt(p[2])>>

\* n x n matrices as functions on Idx(n, n)
Entries(m) == [ij \in Idx(m.h, m.w) |-> At(m, ij[1], ij[2])]
IdentityF(n) == [ij \in Idx(n, n) |-> IF ij[1] = ij[2] THEN Rat(1, 1) ELSE Rat(0, 1)]
IsSymF(F, n) == \A ij \in Idx(n, n) : F[ij] = F[ij[2], ij[1]]

\* the convergence test: no off-diagonal entry is left
Converged(F, n) == \A ij \in Idx(n, n) : ij[1] # ij[2] => F[ij] = Rat(0, 1)

\* tangent, cosine and sine of the Jacobi rotation annihilating entry (p, q) of F:
\* with theta = (F_qq - F_pp) / (2 F_pq), t = sgn(theta) / (|theta| + sqrt(theta^2 + 1)),
\* cs = 1 / sqrt(t^2 + 1), sn = t * cs
Theta(F, p, q) == RDiv(RSub(F[q, q], F[p, p]), RMul(Rat(2, 1), F[p, q]))
Tangent(F, p, q) ==
    IF Theta(F, p, q) = Rat(0, 1) THEN Rat(1, 1)
    ELSE RDiv(IF RLess(Theta(F, p, q), Rat(0, 1)) THEN Rat(-1, 1) ELSE Rat(1, 1),
              RAdd(RAbs(Theta(F, p, q)),
                   RSqrt(RAdd(RMul(Theta(F, p, q), Theta(F, p, q)), Rat(1, 1)))))
Cosine(F, p, q) ==
    RDiv(Rat(1, 1), RSqrt(RAdd(RMul(Tangent(F, p, q), Tangent(F, p, q)), Rat(1, 1))))
Sine(F, p, q) == RMul(Tangent(F, p, q), Cosine(F, p, q))

\* G * J: columns p and q of G combined with cosine cs and sine sn
ColRot(G, n, p, q, cs, sn) ==
    [ij \in Idx(n, n) |->
        IF ij[2] = p THEN RSub(RMul(cs, G[ij[1], p]), RMul(sn, G[ij[1], q]))
        ELSE IF ij[2] = q THEN RAdd(RMul(sn, G[ij[1], p]), RMul(cs, G[ij[1], q]))
        ELSE G[ij]]

\* Jt * G: rows p and q of G combined with cosine cs and sine sn
RowRot(G, n, p, q, cs, sn) ==
    [ij \in Idx(n, n) |->
        IF ij[1] = p THEN RSub(RMul(cs, G[p, ij[2]]), RMul(sn, G[q, ij[2]]))
        ELSE IF ij[1] = q THEN RAdd(RMul(sn, G[p, ij[2]]), RMul(cs, G[q, ij[2]]))
        ELSE G[ij]]

\* one Jacobi rotation in (p, q): F becomes Jt*F*J, nothing happens when the entry
\* is already zero
RotateA(F, n, p, q) ==
    IF F[p, q] = Rat(0, 1) THEN F
    ELSE RowRot(ColRot(F, n, p, q, Cosine(F, p, q), Sine(F, p, q)),
                n, p, q, Cosine(F, p, q), Sine(F, p, q))

\* the accumulated rotations V become V*J
RotateV(F, V, n, p, q) ==
    IF F[p, q] = Rat(0, 1) THEN V
    ELSE ColRot(V, n, p, q, Cosine(F, p, q), Sine(F, p, q))

\* the pairs of a sweep come in row-cyclic order: (0,1), (0,2), .., (n-2,n-1)
FirstPair == <<0, 1>>
LastPair(n, pr) == pr[2] + 1 >= n /\ pr[1] + 2 >= n
NextPair(n, pr) ==
    IF pr[2] + 1 < n THEN <<pr[1], pr[2] + 1>>
    ELSE IF pr[1] + 2 < n THEN <<pr[1] + 1, pr[1] + 2>>
    ELSE FirstPair

\* F with the entries (p, q) and (q, p) annihilated
ZeroPair(F, n, p, q) ==
    [ij \in Idx(n, n) |-> IF ij = <<p, q>> \/ ij = <<q, p>> THEN Rat(0, 1) ELSE F[ij]]

\* variant of Ranked: the diagonal is returned in the order the sweeps left it
Ranked_Unsorted(F, n, k) == k

\* the index whose diagonal entry is the k-th smallest (k from 0), ties by index
Ranked(F, n, k) ==
    CHOOSE i \in 0..(n - 1) :
        Cardinality({j \in 0..(n - 1) :
                        RLess(F[j, j], F[i, i]) \/ (F[j, j] = F[i, i] /\ j < i)}) = k

\* entry: copy mat into scratch, start from the identity
CalcEigenSystemEnter ==
    /\ pc = "ready"
    /\ pc' = "sweep"
    /\ call' = Call("CalcEigenSystem", FALSE, TRUE, 1)
    /\ work' = Entries(mat)
    /\ eigenvecs' = [eigenvecs EXCEPT !.buf = Store(eigenvecs, mat.h, mat.h, IdentityF(mat.h))]
    /\ sweeps' = 0
    /\ pq' = FirstPair
    /\ UNCHANGED <<blasVars, mvVars, mat, lami>>

\* a rotation is due: the cap is not reached and either a sweep is under way or the
\* convergence test at its start fails
CanRotate ==
    /\ pc = "sweep"
    /\ sweeps < MaxSweeps
    /\ pq # FirstPair \/ ~Converged(work, mat.h)

\* variant of CanReturn: the routine leaves its loop only after convergence
CanReturn_OnlyConverged ==
    /\ pc = "sweep"
    /\ pq = FirstPair
    /\ Converged(work, mat.h)

\* the loop is left between two sweeps, on convergence or at the cap
CanReturn ==
    /\ pc = "sweep"
    /\ pq = FirstPair
    /\ Converged(work, mat.h) \/ sweeps = MaxSweeps

\* the next rotation of the current sweep; a sweep is started only while the
\* off-diagonal part is not gone and the cap is not reached.  The rotation formulas
\* assume a symmetric matrix; what a rotation leaves of a non-symmetric one is not
\* determined by the contract: the pair may be annihilated or still be there.
JacobiRotate ==
    /\ CanRotate
    /\ IF IsSymF(work, mat.h)
       THEN /\ work' = RotateA(work, mat.h, pq[1], pq[2])
            /\ eigenvecs' = [eigenvecs EXCEPT !.buf =
                    Store(eigenvecs, mat.h, mat.h,
                          RotateV(work, Entries(eigenvecs), mat.h, pq[1], pq[2]))]
       ELSE /\ work' \in {work, ZeroPair(work, mat.h, pq[1], pq[2])}
            /\ UNCHANGED eigenvecs
    /\ pq' = NextPair(mat.h, pq)
    /\ sweeps' = IF LastPair(mat.h, pq) THEN sweeps + 1 ELSE sweeps
    /\ UNCHANGED <<blasVars, mvVars, mat, lami, call, pc>>

\* exit, converged or not: the diagonal goes to lami in ascending order, the columns
\* of eigenvecs follow
CalcEigenSystemReturn ==
    /\ CanReturn
    /\ pc' = "done"
    /\ lami' = [lami EXCEPT !.buf = [k \in 1..mat.h |->
                    work[Ranked(work, mat.h, k - 1), Ranked(work, mat.h, k - 1)]]]
    /\ eigenvecs' = [eigenvecs EXCEPT !.buf =
                        Store(eigenvecs, mat.h, mat.h,
                              [ij \in Idx(mat.h, mat.h) |->
                                  At(eigenvecs, ij[1], Ranked(work, mat.h, ij[2]))])]
    /\ UNCHANGED <<blasVars, mvVars, mat, work, sweeps, pq, call>>

\* entry patterns.  blk = <<p, q>>, p < q, puts the block ((16, 12), (12, 9)) (or its
\* flip) shifted by seed on rows and columns p, q: its rotation has cosine 4/5 and
\* sine 3/5.  blk = <<0, 0>> leaves the matrix diagonal.  Without sym the
\* off-diagonal part is skew.
EntEig(seed, blk, flip, i, j) ==
    IF i = j
    THEN IF blk[1] # blk[2] /\ i \in {blk[1], blk[2]}
         THEN seed + (IF (i = blk[1]) = flip THEN 9 ELSE 16)
         ELSE (seed + 2 * i) % 3
    ELSE IF {i, j} = {blk[1], blk[2]} THEN (IF seed % 2 = 0 THEN 12 ELSE -12)
    ELSE 0

EntSkew(seed, i, j) == IF i = j THEN i ELSE IF i < j THEN 1 + seed ELSE 0 - (1 + seed)

InitEigen ==
    \E n \in 0..MaxDim, seed \in 0..MaxSeed, flip \in BOOL, sym \in BOOL :
      \E blk \in {<<0, 0>>} \cup {pr \in Idx(n, n) : pr[1] < pr[2]} :
        /\ IdleBlas
        /\ mat = MakeView(n, n, "Row",
                          [ij \in Idx(n, n) |->
                              Rat(IF sym THEN EntEig(seed, blk, flip, ij[1], ij[2])
                                         ELSE EntSkew(seed, ij[1], ij[2]), 1)])
        /\ lami = Vec([i \in 1..n |-> Rat(0, 1)])
        /\ eigenvecs = MakeView(n, n, "Row", [ij \in Idx(n, n) |-> Rat(0, 1)])
        /\ work = <<>>
        /\ sweeps = 0
        /\ pq = FirstPair
        /\ call = [op |-> "none", ADD |-> FALSE, POS |-> FALSE, s |-> 0]
        /\ pc = "ready"
        /\ IdleMv

NextEigen ==
    \/ CalcEigenSystemEnter
    \/ JacobiRotate
    \/ CalcEigenSystemReturn

\* where the routine stands in its loop; every step changes it
Position == <<pc, pq, sweeps>>

\* some step of the routine can be taken and the position moves on
Advance ==
    /\ pc = "ready" \/ CanRotate \/ CanReturn
    /\ pc' \in {"sweep", "done"}
    /\ pq' \in Idx(mat.h + 2, mat.h + 2)
    /\ sweeps' \in 0..MaxSweeps

\* the routine is a sequential loop: while a step can be taken, one is taken
SpecEigen == InitEigen /\ [][NextEigen]_vars /\ WF_Position(Advance)

----------------------------------------------------------------------------
(* Multi-vector operations: xs and ys are collections of m vectors of       *)
(* length n each, held in separate buffers; ip and the coefficient matrix a *)
(* are m x m.                                                               *)

InnerProduct(u, v, n) == SumTo(n, [l \in 0..(n - 1) |-> u[l + 1] * v[l + 1]])

\* extern: ip(i,j) = InnerProduct(x_i, y_j); the buffer of ip after the call
PairwiseInnerProduct(n, mx, my, mip) ==
    Store(mip, Len(mx), Len(my),
          [ij \in Idx(Len(mx), Len(my)) |-> InnerProduct(mx[ij[1] + 1], my[ij[2] + 1], n)])

\* variant of MultiVectorAdd: the vectors x_i are left as they are
MultiVectorAdd_NoUpdate(n, mx, my, ma) == mx

\* extern: x_i += sum_j a(i,j) y_j; the collection x after the call
MultiVectorAdd(n, mx, my, ma) ==
    [i \in 1..Len(mx) |->
        [l \in 1..Len(mx[i]) |->
            IF l <= n
            THEN mx[i][l] + SumTo(Len(my), [j \in 0..(Len(my) - 1) |->
                                                 At(ma, i - 1, j) * my[j + 1][l]])
            ELSE mx[i][l]]]

\* entry patterns; coefficient matrices: 0 the zero matrix, 1 the identity, 2 full
EntXs(seed, i, l) == ((seed + i + 2 * l) % 4) - 1
EntYs(seed, j, l) == ((2 * seed + 3 * j + l) % 3) - 1
EntCoef(kind, i, j) == IF kind = 0 THEN 0 ELSE IF kind = 1 THEN (IF i = j THEN 1 ELSE 0) ELSE i + j + 1

InitMulti ==
    \E m \in 0..MaxDim, n \in 0..MaxDim, seed \in 0..MaxSeed, kind \in 0..2, orda \in Orders :
        /\ tables = InitTables
        /\ a = MakeView(m, m, orda, [ij \in Idx(m, m) |-> EntCoef(kind, ij[1], ij[2])])
        /\ b = EmptyView /\ c = EmptyView
        /\ x = Vec(<<>>) /\ y = Vec(<<>>)
        /\ ind = <<>>
        /\ diag = Vec(<<>>)
        /\ used = <<>>
        /\ S = EmptyView
        /\ c0 = <<>> /\ y0 = <<>>
        /\ trace = <<>>
        /\ call = [op |-> "none", ADD |-> FALSE, POS |-> FALSE, s |-> 0]
        /\ pc = "ready"
        /\ IdleEig
        /\ calls = 0
        /\ IdleHost
        /\ xs = [i \in 1..m |-> [l \in 1..n |-> EntXs(seed, i - 1, l - 1)]]
        /\ ys = [j \in 1..m |-> [l \in 1..n |-> EntYs(seed, j - 1, l - 1)]]
        /\ ip = MakeView(m, m, "Row", [ij \in Idx(m, m) |-> 0])
        /\ xs0 = xs

\* the common length of the vectors
VecLen == IF xs = <<>> THEN 0 ELSE Len(xs[1])

PairwiseInnerProductCall ==
    /\ pc = "ready"
    /\ pc' = "done"
    /\ call' = Call("PairwiseInnerProduct", FALSE, TRUE, 1)
    /\ ip' = [ip EXCEPT !.buf = PairwiseInnerProduct(VecLen, xs, ys, Bare(ip))]
    /\ UNCHANGED <<blasVars, eigVars, xs, ys, xs0>>

\* MultiVectorAdd after PairwiseInnerProduct, on the same collections
MultiVectorAddCall ==
    /\ pc = "done"
    /\ call.op = "PairwiseInnerProduct"
    /\ call' = Call("MultiVectorAdd", TRUE, TRUE, 1)
    /\ xs' = MultiVectorAdd(VecLen, xs, ys, Bare(a))
    /\ UNCHANGED <<blasVars, eigVars, ys, ip, xs0, pc>>

NextMulti ==
    \/ PairwiseInnerProductCall
    \/ MultiVectorAddCall

SpecMulti == InitMulti /\ [][NextMulti]_vars

----------------------------------------------------------------------------
(* The scratch arena (LocalHeap) and its scopes (HeapReset).  A scope is a   *)
(* call of CalcSchurComplement, which takes its temporaries from the arena,  *)
(* or one iteration of a block guarded by HeapReset hr(lh).  The arena is a  *)
(* stack: a scope remembers the allocation mark it was entered with and its  *)
(* exit puts the mark back, whether the scope returns or an exception leaves *)
(* it.                                                                       *)

\* deepest nesting of scopes
MaxDepth == 2
\* capacity of the arena, in allocation units
HeapUnits == 4

ScopeKinds == {"CalcSchurComplement", "block"}

\* everything that is not the arena
besideArena == <<kernelVars, eigVars, mvVars, compVars, vecVars, call, pc>>

\* the mark the arena has after a scope's exit, which ignores exceptions
Release_LeaksOnThrow(scope) == IF unwinding THEN lh ELSE scope.mark

\* the mark the arena has after a scope's exit: the one the scope saved
Release(scope) == scope.mark

\* a scope is entered: its HeapReset saves the mark
EnterScope(kind) ==
    /\ ~unwinding
    /\ Len(hr) < MaxDepth
    /\ hr' = Append(hr, [kind |-> kind, mark |-> lh])
    /\ UNCHANGED <<lh, unwinding, besideArena>>

\* n units of scratch are taken inside a scope; a request beyond the capacity throws
Alloc(n) ==
    /\ ~unwinding
    /\ hr # <<>>
    /\ IF lh + n <= HeapUnits
       THEN lh' = lh + n /\ unwinding' = FALSE
       ELSE lh' = lh /\ unwinding' = TRUE
    /\ UNCHANGED <<hr, besideArena>>

\* the code of the innermost scope throws
Throw ==
    /\ ~unwinding
    /\ hr # <<>>
    /\ unwinding' = TRUE
    /\ UNCHANGED <<lh, hr, besideArena>>

\* the innermost scope ends: it returns, or the exception leaves it; the exception
\* is caught by the caller of the outermost scope
ExitScope ==
    /\ hr # <<>>
    /\ lh' = Release(hr[Len(hr)])
    /\ hr' = SubSeq(hr, 1, Len(hr) - 1)
    /\ unwinding' = (unwinding /\ Len(hr) > 1)
    /\ UNCHANGED besideArena

InitArena ==
    /\ IdleKernels /\ IdleEig /\ IdleMv /\ IdleArena /\ IdleComp /\ IdleVec
    /\ call = [op |-> "none", ADD |-> FALSE, POS |-> FALSE, s |-> 0]
    /\ pc = "ready"

NextArena ==
    \/ \E kind \in ScopeKinds : EnterScope(kind)
    \/ \E n \in 1..2 : Alloc(n)
    \/ Throw
    \/ ExitScope

SpecArena == InitArena /\ [][NextArena]_vars

----------------------------------------------------------------------------
(* Vector operations CopyVector and AddVector (ngblas.hpp:17-43).  The views *)
(* src and dest point into one memory, so that they may share cells.         *)

\* number of cells of the memory
MemCells == 4

\* cell (index into mem) of element i of the vector view v
Cell(v, i) == v.start + i * v.dist + 1

\* the cells of the vector view v
Cells(v) == {Cell(v, i) : i \in 0..(v.n - 1)}

\* for (size_t i : Range(bound)) dest[i] = src[i];  from index i on
RECURSIVE CopyLoop(_, _, _, _, _)
CopyLoop(m, from, to, bound, i) ==
    IF i >= bound.n THEN m
    ELSE CopyLoop([m EXCEPT ![Cell(to, i)] = m[Cell(from, i)]], from, to, bound, i + 1)

\* for (size_t i : Range(bound)) dest[i] += alpha*src[i];  from index i on
RECURSIVE AddLoop(_, _, _, _, _, _)
AddLoop(m, alpha, from, to, bound, i) ==
    IF i >= bound.n THEN m
    ELSE AddLoop([m EXCEPT ![Cell(to, i)] = m[Cell(to, i)] + alpha * m[Cell(from, i)]],
                 alpha, from, to, bound, i + 1)

\* copy running over the indices of src
CopyVector_OverSrc(m, from, to) == CopyLoop(m, from, to, from, 0)

CopyVector(m, from, to) == CopyLoop(m, from, to, to, 0)

AddVector(m, alpha, from, to) == AddLoop(m, alpha, from, to, to, 0)

\* the vector views of at most MemCells elements that lie inside the memory;
\* FlatVector has consecutive elements, SliceVector any distance
VectorViews ==
    {v \in [start : 0..(MemCells - 1), dist : 1..2, n : 0..MemCells] :
        v.n > 0 => Cell(v, v.n - 1) <= MemCells}

besideVec == <<kernelVars, eigVars, mvVars, arenaVars, compVars>>

\* src has an element for every index of dest
InitVec ==
    /\ IdleKernels /\ IdleEig /\ IdleMv /\ IdleArena /\ IdleComp
    /\ \E seed \in 0..MaxSeed :
        mem = [p \in 1..MemCells |-> seed + 2 * p - 3]
    /\ mem0 = mem
    /\ src \in VectorViews
    /\ dest \in VectorViews
    /\ src.n >= dest.n
    /\ call = [op |-> "none", ADD |-> FALSE, POS |-> FALSE, s |-> 0]
    /\ pc = "ready"

\* CopyVector (FlatVector<T1> src, FlatVector<T2> dest)
CopyVectorFlatCall ==
    /\ pc = "ready"
    /\ src.dist = 1 /\ dest.dist = 1
    /\ call' = Call("CopyVector", FALSE, TRUE, 1)
    /\ mem' = CopyVector(mem, src, dest)
    /\ pc' = "done"
    /\ UNCHANGED <<mem0, src, dest, besideVec>>

\* CopyVector (SliceVector<T1> src, SliceVector<T2> dest)
CopyVectorSliceCall ==
    /\ pc = "ready"
    /\ call' = Call("CopyVector", FALSE, TRUE, 1)
    /\ mem' = CopyVector(mem, src, dest)
    /\ pc' = "done"
    /\ UNCHANGED <<mem0, src, dest, besideVec>>

\* AddVector (T0 alpha, FlatVector<T1> src, FlatVector<T2> dest)
AddVectorFlatCall(alpha) ==
    /\ pc = "ready"
    /\ src.dist = 1 /\ dest.dist = 1
    /\ call' = Call("AddVector", TRUE, TRUE, alpha)
    /\ mem' = AddVector(mem, alpha, src, dest)
    /\ pc' = "done"
    /\ UNCHANGED <<mem0, src, dest, besideVec>>

\* AddVector (T0 alpha, SliceVector<T1> src, SliceVector<T2> dest)
AddVectorSliceCall(alpha) ==
    /\ pc = "ready"
    /\ call' = Call("AddVector", TRUE, TRUE, alpha)
    /\ mem' = AddVector(mem, alpha, src, dest)
    /\ pc' = "done"
    /\ UNCHANGED <<mem0, src, dest, besideVec>>

NextVec ==
    \/ CopyVectorFlatCall
    \/ CopyVectorSliceCall
    \/ \E alpha \in Scalars : AddVectorFlatCall(alpha)
    \/ \E alpha \in Scalars : AddVectorSliceCall(alpha)

SpecVec == InitVec /\ [][NextVec]_vars

----------------------------------------------------------------------------
(* Python-facing entry points (comp/python_comp.cpp): the global scratch     *)
(* heap glh with its size global_heapsize, and Integrate, whose element      *)
(* callbacks IterateElements runs on several threads.                        *)

\* calls of entry points in one run
MaxHeapCalls == 2
\* number of elements of the mesh
MaxElems == 2
\* number of regions of the mesh
NRegions == 2

\* conversion of an int to size_t: a negative value wraps around to 2^64 + i
ToSizeT(i) == IF i < 0 THEN <<1, i>> ELSE <<0, i>>

\* u > v on values q * 2^64 + r with |r| < 2^31
Greater(u, v) == u[1] > v[1] \/ (u[1] = v[1] /\ u[2] > v[2])

\* heapsize arguments of the entry points taking an int
IntHeapSizes == {-1, InitialHeapSize, 2 * InitialHeapSize}

\* heapsize arguments of SetHeapSize, which takes a size_t
SizeTHeapSizes == {Small(InitialHeapSize - 1), Small(3 * InitialHeapSize)}

\* variant of GrowGlobalHeap: the heap is replaced without the test
GrowGlobalHeap_Unconditional(hs) ==
    /\ global_heapsize' = hs
    /\ glh' = [size |-> hs, serial |-> glh.serial + 1]

\* if (heapsize > global_heapsize)
\*   { global_heapsize = heapsize; glh = LocalHeap (heapsize, "python-comp lh", true); }
\* with heapsize already converted to size_t for the comparison
GrowGlobalHeap(hs) ==
    IF Greater(hs, global_heapsize)
    THEN /\ global_heapsize' = hs
         /\ glh' = [size |-> hs, serial |-> glh.serial + 1]
    ELSE UNCHANGED <<global_heapsize, glh>>

\* the record of a call: the heapsize as the caller passed it, whether an explicit
\* heap was passed, whether the space is a tensor-product space
Passed(heapsize, heap, tpspace) ==
    [heapsize |-> heapsize, heap |-> heap, tpspace |-> tpspace]

integVars == <<args, mask, use_simd, sum, region_sum, element_sum, pending, workers, adds>>

besideComp == <<kernelVars, eigVars, mvVars, arenaVars, vecVars>>

\* no Integrate is iterating, and the run may make another call
CanCall == pc # "iterate" /\ Len(passed) < MaxHeapCalls

\* m.def("SetHeapSize", [](size_t heapsize) ...)
SetHeapSize(heapsize) ==
    /\ CanCall
    /\ GrowGlobalHeap(heapsize)
    /\ passed' = Append(passed, Passed(heapsize, FALSE, FALSE))
    /\ call' = Call("SetHeapSize", FALSE, TRUE, 1)
    /\ pc' = "done"
    /\ UNCHANGED <<integVars, besideComp>>

\* an entry point that takes int heapsize and starts with the test
HeapCall(fn, heapsize) ==
    /\ CanCall
    /\ GrowGlobalHeap(ToSizeT(heapsize))
    /\ passed' = Append(passed, Passed(Small(heapsize), FALSE, FALSE))
    /\ call' = Call(fn, FALSE, TRUE, 1)
    /\ pc' = "done"
    /\ UNCHANGED <<integVars, besideComp>>

SolveM(heapsize) == HeapCall("SolveM", heapsize)
BilinearForm_Assemble(heapsize) == HeapCall("BilinearForm.Assemble", heapsize)
Apply(heapsize) == HeapCall("Apply", heapsize)
ComputeInternal(heapsize) == HeapCall("ComputeInternal", heapsize)
AssembleLinearization(heapsize) == HeapCall("AssembleLinearization", heapsize)
LinearForm_Assemble(heapsize) == HeapCall("LinearForm.Assemble", heapsize)

\* GridFunction.Set: returns before the test on a tensor-product space and when an
\* explicit heap is passed
GridFunction_Set(heapsize, tpspace, heap) ==
    /\ CanCall
    /\ IF tpspace \/ heap
       THEN UNCHANGED <<global_heapsize, glh>>
       ELSE GrowGlobalHeap(ToSizeT(heapsize))
    /\ passed' = Append(passed, Passed(Small(heapsize), heap, tpspace))
    /\ call' = Call("Set", FALSE, TRUE, 1)
    /\ pc' = "done"
    /\ UNCHANGED <<integVars, besideComp>>

\* the elements of the mesh, and the region an element belongs to
Elements == 1..MaxElems
GetIndex(el) == el % NRegions

\* the value the integration yields on element el
Contribution(el) == 2 ^ (el - 1)

\* the sum of the contributions of a set of elements
ContributionOf(els) ==
    SumTo(MaxElems, [e \in 0..(MaxElems - 1) |->
                        IF (e + 1) \in els THEN Contribution(e + 1) ELSE 0])

\* the elements whose region is set in the mask m
MaskedElements(m) == {el \in Elements : m[GetIndex(el) + 1]}

\* Integrate as one step of a sequence of calls: the test, and the sums the
\* iteration over the elements returns
Integrate(heapsize, definedon, region_wise, element_wise) ==
    /\ CanCall
    /\ GrowGlobalHeap(ToSizeT(heapsize))
    /\ passed' = Append(passed, Passed(Small(heapsize), FALSE, FALSE))
    /\ call' = Call("Integrate", FALSE, TRUE, 1)
    /\ args' = [heapsize |-> heapsize, region_wise |-> region_wise,
                element_wise |-> element_wise]
    /\ mask' = definedon
    /\ sum' = ContributionOf(MaskedElements(definedon))
    /\ region_sum' = [r \in 1..(IF region_wise THEN NRegions ELSE 0) |->
                         ContributionOf({el \in MaskedElements(definedon) :
                                            GetIndex(el) + 1 = r})]
    /\ element_sum' = [e \in 1..(IF element_wise THEN MaxElems ELSE 0) |->
                          IF e \in MaskedElements(definedon) THEN Contribution(e) ELSE 0]
    /\ use_simd' \in BOOL
    /\ pending' = {}
    /\ adds' = [e \in Elements |-> IF e \in MaskedElements(definedon) THEN 1 ELSE 0]
    /\ workers' = [t \in Threads |-> [pc |-> "idle", el |-> 0, hsum |-> 0, this_simd |-> TRUE]]
    /\ pc' = "done"
    /\ UNCHANGED besideComp

\* Integrate up to the call of IterateElements: the test, mask, the accumulators
IntegrateEnter(heapsize, definedon, region_wise, element_wise) ==
    /\ pc = "ready"
    /\ GrowGlobalHeap(ToSizeT(heapsize))
    /\ passed' = Append(passed, Passed(Small(heapsize), FALSE, FALSE))
    /\ call' = Call("Integrate", FALSE, TRUE, 1)
    /\ args' = [heapsize |-> heapsize, region_wise |-> region_wise,
                element_wise |-> element_wise]
    /\ mask' = definedon
    /\ sum' = 0
    /\ region_sum' = [r \in 1..(IF region_wise THEN NRegions ELSE 0) |-> 0]
    /\ element_sum' = [e \in 1..(IF element_wise THEN MaxElems ELSE 0) |-> 0]
    /\ use_simd' = TRUE
    /\ pending' = Elements
    /\ adds' = [e \in Elements |-> 0]
    /\ workers' = [t \in Threads |-> [pc |-> "idle", el |-> 0, hsum |-> 0, this_simd |-> TRUE]]
    /\ pc' = "iterate"
    /\ UNCHANGED besideComp

heapVars == <<global_heapsize, glh, passed>>

\* a thread starts the callback on an element; bool this_simd = use_simd is an
\* unsynchronized read, which may still see the value the flag was created with
EnterCallback(t, el) ==
    /\ pc = "iterate"
    /\ workers[t].pc = "idle"
    /\ el \in pending
    /\ pending' = pending \ {el}
    /\ IF ~mask[GetIndex(el) + 1]
       THEN UNCHANGED workers
       ELSE \E seen \in {use_simd, TRUE} :
               workers' = [workers EXCEPT ![t] =
                              [pc |-> IF seen THEN "simd" ELSE "scalar",
                               el |-> el, hsum |-> 0, this_simd |-> seen]]
    /\ UNCHANGED <<heapVars, args, mask, use_simd, sum, region_sum, element_sum, adds,
                   call, pc, besideComp>>

\* the SIMD evaluation succeeds: hsum[i] = HSum(vsum[i])
EvaluateSIMD(t) ==
    /\ pc = "iterate"
    /\ workers[t].pc = "simd"
    /\ workers' = [workers EXCEPT ![t].hsum = Contribution(workers[t].el), ![t].pc = "add"]
    /\ UNCHANGED <<heapVars, args, mask, use_simd, sum, region_sum, element_sum, pending,
                   adds, call, pc, besideComp>>

\* variant of CatchNOSIMD: the handler leaves this_simd set
CatchNOSIMD_NoFallback(t) ==
    /\ pc = "iterate"
    /\ workers[t].pc = "simd"
    /\ workers' = [workers EXCEPT ![t].hsum = 0, ![t].pc = "add"]
    /\ use_simd' = FALSE
    /\ UNCHANGED <<heapVars, args, mask, sum, region_sum, element_sum, pending, adds,
                   call, pc, besideComp>>

\* the SIMD evaluation throws: catch (ExceptionNOSIMD e)
\*   { this_simd = false; use_simd = false; hsum = 0.0; }
CatchNOSIMD(t) ==
    /\ pc = "iterate"
    /\ workers[t].pc = "simd"
    /\ workers' = [workers EXCEPT ![t].hsum = 0, ![t].this_simd = FALSE, ![t].pc = "scalar"]
    /\ use_simd' = FALSE
    /\ UNCHANGED <<heapVars, args, mask, sum, region_sum, element_sum, pending, adds,
                   call, pc, besideComp>>

\* if (!this_simd): hsum += mir[i].GetWeight() * values.Row(i) over the points
EvaluateScalar(t) ==
    /\ pc = "iterate"
    /\ workers[t].pc = "scalar"
    /\ workers' = [workers EXCEPT ![t].hsum = @ + Contribution(workers[t].el),
                                  ![t].pc = "add"]
    /\ UNCHANGED <<heapVars, args, mask, use_simd, sum, region_sum, element_sum, pending,
                   adds, call, pc, besideComp>>

\* AsAtomic(sum(i)) += hsum(i): one indivisible read-modify-write
AddToSum(t) ==
    /\ pc = "iterate"
    /\ workers[t].pc = "add"
    /\ sum' = sum + workers[t].hsum
    /\ adds' = [adds EXCEPT ![workers[t].el] = @ + 1]
    /\ workers' = [workers EXCEPT ![t].pc = "region"]
    /\ UNCHANGED <<heapVars, args, mask, use_simd, region_sum, element_sum, pending,
                   call, pc, besideComp>>

\* if (region_wise) AsAtomic(region_sum(el.GetIndex())) += hsum(0);
\* if (element_wise) element_sum(el.Nr()) = hsum(0);  and the callback returns
AddToRegion(t) ==
    /\ pc = "iterate"
    /\ workers[t].pc = "region"
    /\ region_sum' = IF args.region_wise
                     THEN [region_sum EXCEPT ![GetIndex(workers[t].el) + 1] =
                                                @ + workers[t].hsum]
                     ELSE region_sum
    /\ element_sum' = IF args.element_wise
                      THEN [element_sum EXCEPT ![workers[t].el] = workers[t].hsum]
                      ELSE element_sum
    /\ workers' = [workers EXCEPT ![t].pc = "idle"]
    /\ UNCHANGED <<heapVars, args, mask, use_simd, sum, pending, adds, call, pc, besideComp>>

\* IterateElements has run the callback on every element: Integrate returns
IntegrateReturn ==
    /\ pc = "iterate"
    /\ pending = {}
    /\ \A t \in Threads : workers[t].pc = "idle"
    /\ pc' = "done"
    /\ UNCHANGED <<heapVars, integVars, call, besideComp>>

InitComp ==
    /\ IdleKernels /\ IdleEig /\ IdleMv /\ IdleArena /\ IdleComp /\ IdleVec
    /\ call = [op |-> "none", ADD |-> FALSE, POS |-> FALSE, s |-> 0]
    /\ pc = "ready"

\* the masks Integrate builds: every region without definedon, the region's else
Masks == [1..NRegions -> BOOL]

NextComp ==
    \/ \E heapsize \in SizeTHeapSizes : SetHeapSize(heapsize)
    \/ \E heapsize \in IntHeapSizes :
          \/ SolveM(heapsize)
          \/ BilinearForm_Assemble(heapsize)
          \/ Apply(heapsize)
          \/ ComputeInternal(heapsize)
          \/ AssembleLinearization(heapsize)
          \/ LinearForm_Assemble(heapsize)
          \/ \E tpspace \in BOOL, heap \in BOOL : GridFunction_Set(heapsize, tpspace, heap)
          \/ \E definedon \in Masks, region_wise \in BOOL, element_wise \in BOOL :
                Integrate(heapsize, definedon, region_wise, element_wise)

SpecComp == InitComp /\ [][NextComp]_vars

\* one call of Integrate, the callbacks of IterateElements taken step by step
NextIntegrate ==
    \/ \E heapsize \in IntHeapSizes, definedon \in Masks,
          region_wise \in BOOL, element_wise \in BOOL :
             IntegrateEnter(heapsize, definedon, region_wise, element_wise)
    \/ \E t \in Threads :
          \/ \E el \in Elements : EnterCallback(t, el)
          \/ EvaluateSIMD(t)
          \/ CatchNOSIMD(t)
          \/ EvaluateScalar(t)
          \/ AddToSum(t)
          \/ AddToRegion(t)
    \/ IntegrateReturn

SpecIntegrate == InitComp /\ [][NextIntegrate]_vars

----------------------------------------------------------------------------
(* Vocabulary of the properties *)

Done == pc = "done"

\* c as it was when the call was entered
COld == [c EXCEPT !.buf = c0]

\* the naive reference products on the operands of the call
RefAB(i, j) == SumTo(a.w, [l \in 0..(a.w - 1) |-> At(a, i, l) * At(b, l, j)])
RefAx(i) == SumTo(a.w, [j \in 0..(a.w - 1) |-> At(a, i, j) * VAt(x, j)])

\* c == (c_old if ADD) +- a*b in every entry
CIsReference(ADD, POS) ==
    \A i \in 0..(c.h - 1), j \in 0..(c.w - 1) :
        At(c, i, j) = (IF ADD THEN At(COld, i, j) ELSE 0)
                      + (IF POS THEN RefAB(i, j) ELSE 0 - RefAB(i, j))

\* y == (y_old if ADD) + s*(a*x) in every entry
YIsReference(ADD, s) ==
    \A i \in 0..(y.n - 1) :
        VAt(y, i) = (IF ADD THEN y0[i + 1] ELSE 0) + s * RefAx(i)

\* y[ind[i]] == y_old[ind[i]] + s*(a*x)[i]
YIsIndirectReference(s) ==
    \A i \in 0..(y.n - 1) : VAt(y, ind[i + 1]) = y0[ind[i + 1] + 1] + s * RefAx(i)

CUnchanged == c.buf = c0
CIsZero == \A p \in 1..Len(c.buf) : c.buf[p] = 0
CNonEmpty == c.h > 0 /\ c.w > 0

MatVecEntryPoints ==
    {"MultMatVec", "MultAddMatVec", "MultMatTransVec", "MultAddMatTransVec"}
GemmEntryPoints ==
    {"MultMatMat", "MinusMultAB", "AddAB", "SubAB", "MatMat_AtB", "MultABt", "AddABt"}

\* the records of table routines invoked by the call
TableCalls == SelectSeq(trace, LAMBDA e : e.kind = "table")
\* the records of all routines reached that are not entry points
Served == SelectSeq(trace, LAMBDA e : e.kind # "entry")

----------------------------------------------------------------------------
(* C1: for every dispatch entry point and every operand shape, the output   *)
(* produced through the table/fallback route equals the naive reference     *)
(* formula of the operation on the same inputs.                             *)
C1_TableRouteEqualsReference ==
    Done =>
        /\ call.op \in GemmEntryPoints => CIsReference(call.ADD, call.POS)
        /\ call.op \in MatVecEntryPoints => YIsReference(call.ADD, call.s)
        /\ call.op = "MultAddMatTransVecIndirect" => YIsIndirectReference(call.s)

\* the entry point the call itself entered, and the operands it was given
Entered == trace[1]

\* the innermost entry point the call reached
LastEntry == LET es == SelectSeq(trace, LAMBDA e : e.kind = "entry") IN es[Len(es)]

\* position p of the trace is the entry into one of `names`
IsEntry(p, names) == trace[p].kind = "entry" /\ trace[p].name \in names

\* the record that follows position p is a call of slot i of table t, read inside
\* the table, and it is the only routine the call reaches
OneTableCall(p, t, i) ==
    /\ p < Len(trace)
    /\ trace[p + 1].kind = "table"
    /\ trace[p + 1].name = t
    /\ trace[p + 1].slot = i
    /\ i >= 0 /\ i < Len(tables[t])
    /\ trace[p + 1].routine = tables[t][i + 1]
    /\ Len(TableCalls) = 1
    /\ Len(Served) = 1

----------------------------------------------------------------------------
(* C2 as stated: every GEMM-family call in which some operand has zero      *)
(* height or zero width, an empty contraction with a non-empty C included,  *)
(* returns with every entry of C equal to its value before the call.        *)
C2_ZeroSizedOperandIsNoOp ==
    (Done /\ call.op \in GemmEntryPoints /\ (a.h = 0 \/ a.w = 0 \/ b.w = 0)) => CUnchanged

(* C2 amended: MultMatMat, MinusMultAB, AddAB, SubAB and MatMat_AtB return  *)
(* at once, C untouched, when a.Height() = 0 or b.Width() = 0; MultABt and  *)
(* AddABt with a.Height() = 0 or b.Height() = 0 have an empty C; the        *)
(* accumulating AddAB, SubAB, AddABt (and MatMat_AtB, whose C is then       *)
(* empty) leave C unchanged when a.Width() = 0; but MultMatMat, MinusMultAB *)
(* and MultABt with a.Width() = 0 overwrite every entry of C with zero.     *)
C2_ZeroSizedOperands ==
    (Done /\ call.op \in GemmEntryPoints) =>
        LET pa == Entered.ops[1]
            pb == Entered.ops[2]
        IN /\ ( /\ call.op \in {"MultMatMat", "MinusMultAB", "AddAB", "SubAB", "MatMat_AtB"}
                /\ (pa.h = 0 \/ pb.w = 0) )
              => (CUnchanged /\ Served = <<>>)
           /\ (call.op \in {"MultABt", "AddABt"} /\ (pa.h = 0 \/ pb.h = 0))
              => (CUnchanged /\ ~CNonEmpty)
           /\ (call.op \in {"AddAB", "SubAB", "AddABt", "MatMat_AtB"} /\ pa.w = 0)
              => CUnchanged
           /\ (call.op \in {"MultMatMat", "MinusMultAB", "MultABt"} /\ pa.w = 0)
              => CIsZero

\* AddAB reached its table with an empty contraction and left a non-empty C as it was
C2_Witness ==
    /\ Done /\ call.op = "AddAB"
    /\ a.w = 0 /\ CNonEmpty
    /\ Len(TableCalls) = 1
    /\ CUnchanged

----------------------------------------------------------------------------
(* C3: MultMatVec, MultAddMatVec, MultMatTransVec and MultAddMatTransVec    *)
(* use table index min(n, T-1), n the length of x and T = 26, 25, 13, 13;   *)
(* the index is inside the table, is n for n < T-1 and T-1 for n >= T-1,    *)
(* and exactly one table routine is invoked, once.                          *)
C3_Size(name) ==
    CASE name = "MultMatVec" -> 26
      [] name = "MultAddMatVec" -> 25
      [] name = "MultMatTransVec" -> 13
      [] name = "MultAddMatTransVec" -> 13

C3_Table(name) ==
    CASE name = "MultMatVec" -> "dispatch_matvec"
      [] name = "MultAddMatVec" -> "dispatch_addmatvec"
      [] name = "MultMatTransVec" -> "dispatch_mattransvec"
      [] name = "MultAddMatTransVec" -> "dispatch_addmattransvec"

C3_MatVecIndexClamped ==
    Done =>
        \A p \in 1..Len(trace) :
            IsEntry(p, MatVecEntryPoints) =>
                LET n == trace[p].ops[2]
                    T == C3_Size(trace[p].name)
                IN /\ n = x.n
                   /\ p < Len(trace)
                   /\ trace[p + 1].slot \in 0..(T - 1)
                   /\ n < T - 1 => trace[p + 1].slot = n
                   /\ n >= T - 1 => trace[p + 1].slot = T - 1
                   /\ OneTableCall(p, C3_Table(trace[p].name), trace[p + 1].slot)

\* MultAddMatVec on an x longer than the last index was served by slot 24
C3_Witness ==
    /\ Done /\ call.op = "MultAddMatVec"
    /\ x.n > 24
    /\ Len(TableCalls) = 1
    /\ TableCalls[1].slot = 24

----------------------------------------------------------------------------
(* C4 as stated: for every dispatch table, every call whose dispatch key is *)
(* at least the table's last index N is served by the routine in slot N.    *)

\* entry points that own a table
C4_Clamped ==
    {"MultMatVec", "MultAddMatVec", "MultMatTransVec", "MultAddMatTransVec",
     "MultMatMat", "MinusMultAB", "AddAB", "SubAB", "MatMat_AtB"}
C4_Threshold == {"MultAddMatTransVecIndirect", "MultABt", "AddABt"}

C4_TableOf(e) ==
    CASE e.name \in MatVecEntryPoints -> C3_Table(e.name)
      [] e.name = "MultAddMatTransVecIndirect" -> "dispatch_addmattransvecI"
      [] e.name = "MultMatMat" -> "dispatch_multAB"
      [] e.name = "MinusMultAB" -> "dispatch_minusmultAB"
      [] e.name = "AddAB" -> "dispatch_addAB"
      [] e.name = "SubAB" -> "dispatch_subAB"
      [] e.name = "MatMat_AtB" -> dispatch_atb(e.flags[1], e.flags[2])
      [] e.name = "MultABt" -> "dispatch_abt"
      [] e.name = "AddABt" -> "dispatch_addabt"

\* the dispatch key the entry point computes from its operands
C4_Key(e) ==
    CASE e.name \in MatVecEntryPoints -> e.ops[2]
      [] e.name = "MultAddMatTransVecIndirect" -> e.ops[3]
      [] OTHER -> e.ops[1].w

C4_LastIndex(e) == Len(tables[C4_TableOf(e)]) - 1

C4_ServedBySlot(e, i) ==
    /\ Len(Served) = 1
    /\ Served[1].kind = "table"
    /\ Served[1].name = C4_TableOf(e)
    /\ Served[1].slot = i
    /\ Served[1].routine = tables[C4_TableOf(e)][i + 1]

C4_LargeKeyServedByLastSlot ==
    (Done /\ LastEntry.name \in (C4_Clamped \cup C4_Threshold) /\ Served # <<>>) =>
        (C4_Key(LastEntry) >= C4_LastIndex(LastEntry)
            => C4_ServedBySlot(LastEntry, C4_LastIndex(LastEntry)))

(* C4 amended: for the clamped tables (matvec, addmatvec, mattransvec,      *)
(* addmattransvec, multAB, minusmultAB, addAB, subAB, atb) every call that  *)
(* dispatches with a key at least the last index N is served by slot N; for *)
(* dispatch_addmattransvecI, dispatch_abt and dispatch_addabt (N = 24) a    *)
(* key equal to 24 is served by slot 24, and a key above 24 is served by    *)
(* the non-table routine ..._intern, no slot of the table being read.       *)
C4_LargeKeys ==
    (Done /\ Served # <<>>) =>
        LET e == LastEntry
        IN /\ (e.name \in C4_Clamped /\ C4_Key(e) >= C4_LastIndex(e))
              => C4_ServedBySlot(e, C4_LastIndex(e))
           /\ (e.name \in C4_Threshold /\ C4_Key(e) = 24)
              => (C4_LastIndex(e) = 24 /\ C4_ServedBySlot(e, 24))
           /\ (e.name \in C4_Threshold /\ C4_Key(e) > 24)
              => /\ TableCalls = <<>>
                 /\ Len(Served) = 1
                 /\ Served[1].kind = "intern"
                 /\ Served[1].name = e.name \o "_intern"

\* AddABt with a.Width() = 25 went to AddABt_intern
C4_Witness ==
    /\ Done /\ call.op = "AddABt"
    /\ a.w = 25
    /\ Served # <<>> /\ Served[1].name = "AddABt_intern"

----------------------------------------------------------------------------
(* C5: MultMatMat, MinusMultAB, AddAB and SubAB with a.Height() > 0 and     *)
(* b.Width() > 0 use table index min(a.Width(), 13) of their 14-entry table *)
(* and call the selected routine once, with the unclamped sizes             *)
(* (a.Height(), a.Width(), b.Width()).                                      *)
C5_GemmIndexClamped ==
    Done =>
        \A p \in 1..Len(trace) :
            LET pa == trace[p].ops[1]
                pb == trace[p].ops[2]
            IN (IsEntry(p, {"MultMatMat", "MinusMultAB", "AddAB", "SubAB"})
                    /\ pa.h > 0 /\ pb.w > 0) =>
                 /\ OneTableCall(p, C4_TableOf(trace[p]), IF pa.w < 13 THEN pa.w ELSE 13)
                 /\ Len(tables[C4_TableOf(trace[p])]) = 14
                 /\ trace[p + 1].dims = <<pa.h, pa.w, pb.w>>

\* SubAB with a contraction longer than 13 called slot 13 with the full width
C5_Witness ==
    /\ Done /\ call.op = "SubAB"
    /\ a.h > 0 /\ b.w > 0 /\ a.w > 13
    /\ Len(TableCalls) = 1
    /\ TableCalls[1].slot = 13
    /\ TableCalls[1].dims = <<a.h, a.w, b.w>>

----------------------------------------------------------------------------
(* C6 as stated: MatMat_AtB<ADD,POS>(a, b, c) uses as table index the       *)
(* contraction dimension a.Height() = b.Height(), clamped to the last index *)
(* of dispatch_atb<ADD,POS>::ptrs.                                          *)
C6_AtBIndexIsContraction ==
    Done =>
        \A p \in 1..Len(trace) :
            LET pa == trace[p].ops[1]
                pb == trace[p].ops[2]
                t == C4_TableOf(trace[p])
            IN (IsEntry(p, {"MatMat_AtB"}) /\ pa.h > 0 /\ pb.w > 0) =>
                 OneTableCall(p, t, Min(pa.h, Len(tables[t]) - 1))

(* C6 amended: MatMat_AtB<ADD,POS>(a, b, c) uses as table index a.Width(),  *)
(* the number of rows of c and not the contraction dimension a.Height(),    *)
(* clamped to the last index 13 of dispatch_atb<ADD,POS>::ptrs.             *)
C6_AtBIndexIsWidth ==
    Done =>
        \A p \in 1..Len(trace) :
            LET pa == trace[p].ops[1]
                pb == trace[p].ops[2]
                t == C4_TableOf(trace[p])
            IN (IsEntry(p, {"MatMat_AtB"}) /\ pa.h > 0 /\ pb.w > 0) =>
                 /\ OneTableCall(p, t, IF pa.w < 13 THEN pa.w ELSE 13)
                 /\ Len(tables[t]) = 14
                 /\ trace[p + 1].dims = <<pa.h, pa.w, pb.w>>

\* MatMat_AtB with a short contraction and more than 13 rows of c called slot 13
C6_Witness ==
    /\ Done /\ call.op = "MatMat_AtB"
    /\ Entered.ops[1].h \in 1..2 /\ Entered.ops[1].w > 13 /\ Entered.ops[2].w > 0
    /\ Len(TableCalls) = 1
    /\ TableCalls[1].slot = 13

----------------------------------------------------------------------------
(* C7: for every (ADD,POS) and every shape, an empty contraction with a     *)
(* non-empty c included, MatMat_AtB<ADD,POS>(a, b, c) leaves c equal to     *)
(* transpose(a)*b, -transpose(a)*b, c_old + transpose(a)*b or               *)
(* c_old - transpose(a)*b; for ADD = false and an empty contraction c is 0. *)
C7_AtBFormula ==
    (Done /\ call.op = "MatMat_AtB") =>
        LET pa == Trans(a)
        IN \A i \in 0..(c.h - 1), j \in 0..(c.w - 1) :
               At(c, i, j) =
                   Update(call.ADD, call.POS, At(COld, i, j),
                          SumTo(pa.h, [l \in 0..(pa.h - 1) |-> At(pa, l, i) * At(b, l, j)]))

----------------------------------------------------------------------------
(* C8 as stated: for every (ADD,POS) and every memory order of a, b and c,  *)
(* NgGEMM<ADD,POS>(a, b, c) resolves to exactly one dispatch entry point    *)
(* and never executes the body of the generic NgGEMM template.              *)
C8_Targets ==
    {"MultMatMat", "MinusMultAB", "AddAB", "SubAB", "MultABt", "AddABt",
     "MinusMultABt", "SubABt", "MatMat_AtB"}

C8_Resolved(targets) ==
    /\ Len(SelectSeq(trace, LAMBDA e : e.kind = "entry" /\ e.name \in targets)) = 1
    /\ SelectSeq(trace, LAMBDA e : e.kind = "generic") = <<>>

C8_Unresolved(targets) ==
    /\ SelectSeq(trace, LAMBDA e : e.kind = "entry" /\ e.name \in targets) = <<>>
    /\ Len(SelectSeq(trace, LAMBDA e : e.kind = "generic")) = 1
    /\ TableCalls = <<>>

C8_NgGEMMAlwaysResolved ==
    (Done /\ call.op = "NgGEMM") => C8_Resolved(C8_Targets)

(* C8 amended: for every (ADD,POS), NgGEMM<ADD,POS>(a, b, c) resolves to    *)
(* exactly one dispatch entry point and never runs the generic body, except *)
(* when a and b are both column-major with a row-major c, or both row-major *)
(* with a column-major c: no specialization takes two column-major          *)
(* operands, and in these two combinations the generic body runs and no     *)
(* dispatch entry point is called.                                          *)
C8_GenericOrders == {<<"Col", "Col", "Row">>, <<"Row", "Row", "Col">>}

C8_NgGEMMResolution ==
    (Done /\ call.op = "NgGEMM") =>
        IF <<a.ord, b.ord, c.ord>> \in C8_GenericOrders
        THEN C8_Unresolved(C8_Targets)
        ELSE C8_Resolved(C8_Targets)

\* NgGEMM with column-major a and c and row-major b ended in one entry point
C8_Witness ==
    /\ Done /\ call.op = "NgGEMM"
    /\ a.ord = "Col" /\ b.ord = "Row" /\ c.ord = "Col"
    /\ C8_Resolved(C8_Targets)
    /\ LastEntry.name = "MatMat_AtB"

----------------------------------------------------------------------------
(* C9 as stated: for every (ADD,POS) and both orders of a,                  *)
(* NgGEMV<ADD,POS>(a, x, y) resolves to exactly one of MultMatVec,          *)
(* MultAddMatVec, MultMatTransVec, MultAddMatTransVec and never executes    *)
(* the generic body, the policy ADD = false, POS = false included.          *)
C9_NgGEMVAlwaysResolved ==
    (Done /\ call.op = "NgGEMV") => C8_Resolved(MatVecEntryPoints)

(* C9 amended: for (ADD,POS) other than (false,false) and both orders of a, *)
(* NgGEMV<ADD,POS>(a, x, y) resolves to exactly one of the four entry       *)
(* points and never runs the generic body; for ADD = false, POS = false     *)
(* (y := -A*x) no specialization exists and the generic body runs, for      *)
(* either order of a.                                                       *)
C9_NgGEMVResolution ==
    (Done /\ call.op = "NgGEMV") =>
        IF ~call.ADD /\ ~call.POS
        THEN C8_Unresolved(MatVecEntryPoints)
        ELSE C8_Resolved(MatVecEntryPoints) /\ Len(TableCalls) = 1

\* NgGEMV<true,false> on a column-major a went to MultAddMatTransVec with s = -1
C9_Witness ==
    /\ Done /\ call.op = "NgGEMV"
    /\ call.ADD /\ ~call.POS /\ a.ord = "Col"
    /\ LastEntry.name = "MultAddMatTransVec"
    /\ LastEntry.flags = <<-1>>
    /\ Len(TableCalls) = 1

----------------------------------------------------------------------------
(* C10: each NgGEMM specialization forwards to the entry point whose        *)
(* accumulate/sign policy equals its own flags: row-major a and b to        *)
(* MinusMultAB / MultMatMat / SubAB / AddAB, column-major b to              *)
(* MinusMultABt / MultABt / SubABt / AddABt with Trans(b), column-major a   *)
(* to MatMat_AtB<ADD,POS> with Trans(a) and the same flags; and the         *)
(* documented formula of that entry point on the operands it is given       *)
(* equals the generic formula for the same flags on a, b and c.             *)

\* the documented accumulate and sign policy of an entry point
C10_DocADD(e) ==
    IF e.name = "MatMat_AtB" THEN e.flags[1] ELSE e.name \in {"AddAB", "SubAB", "AddABt", "SubABt"}
C10_DocPOS(e) ==
    IF e.name = "MatMat_AtB" THEN e.flags[2]
    ELSE e.name \in {"MultMatMat", "AddAB", "MultABt", "AddABt"}

\* the entry point the table of the header names for the flags and the family
C10_Name(ADD, POS, family) ==
    IF family = "AtB" THEN "MatMat_AtB"
    ELSE (IF ~ADD /\ ~POS THEN "MinusMult" \o family
          ELSE IF ~ADD /\ POS THEN (IF family = "AB" THEN "MultMatMat" ELSE "MultABt")
          ELSE IF ADD /\ ~POS THEN "Sub" \o family
          ELSE "Add" \o family)

C10_Family(orda, ordb) ==
    IF orda = "Row" /\ ordb = "Row" THEN "AB"
    ELSE IF orda = "Row" /\ ordb = "Col" THEN "ABt"
    ELSE "AtB"

C10_TransShape(sh) == [h |-> sh.w, w |-> sh.h, ord |-> Flip(sh.ord), dist |-> sh.dist]

\* the documented result of entry point e in entry (i,j), its operands read from
\* the buffers of a and b
C10_Doc(e, i, j) ==
    LET ea == e.ops[1] @@ [buf |-> a.buf]
        eb == e.ops[2] @@ [buf |-> b.buf]
        fam == IF e.name = "MatMat_AtB" THEN "AtB"
               ELSE IF e.name \in {"MultABt", "AddABt", "MinusMultABt", "SubABt"} THEN "ABt"
               ELSE "AB"
        p == IF fam = "AB"
             THEN SumTo(ea.w, [l \in 0..(ea.w - 1) |-> At(ea, i, l) * At(eb, l, j)])
             ELSE IF fam = "ABt"
             THEN SumTo(ea.w, [l \in 0..(ea.w - 1) |-> At(ea, i, l) * At(eb, j, l)])
             ELSE SumTo(ea.h, [l \in 0..(ea.h - 1) |-> At(ea, l, i) * At(eb, l, j)])
    IN (IF C10_DocADD(e) THEN At(COld, i, j) ELSE 0) + (IF C10_DocPOS(e) THEN p ELSE 0 - p)

C10_SpecializationsForward ==
    Done =>
        /\ \A p \in 1..Len(trace) :
             LET g == trace[p]
             IN (IsEntry(p, {"NgGEMM"}) /\ g.ops[3].ord = "Row"
                     /\ ~(g.ops[1].ord = "Col" /\ g.ops[2].ord = "Col")) =>
                  LET fam == C10_Family(g.ops[1].ord, g.ops[2].ord)
                      e == trace[p + 1]
                  IN /\ p < Len(trace)
                     /\ e.kind = "entry"
                     /\ e.name = C10_Name(g.flags[1], g.flags[2], fam)
                     /\ fam = "AtB" => e.flags = g.flags
                     /\ e.ops[1] = IF fam = "AtB" THEN C10_TransShape(g.ops[1]) ELSE g.ops[1]
                     /\ e.ops[2] = IF fam = "ABt" THEN C10_TransShape(g.ops[2]) ELSE g.ops[2]
        /\ (call.op = "NgGEMM" /\ c.ord = "Row" /\ ~(a.ord = "Col" /\ b.ord = "Col")) =>
              \A i \in 0..(c.h - 1), j \in 0..(c.w - 1) :
                  C10_Doc(trace[2], i, j)
                      = (IF call.ADD THEN At(COld, i, j) ELSE 0)
                        + (IF call.POS THEN RefAB(i, j) ELSE 0 - RefAB(i, j))

\* NgGEMM<true,false> with a column-major b forwarded to SubABt on Trans(b)
C10_Witness ==
    /\ Done /\ call.op = "NgGEMM"
    /\ call.ADD /\ ~call.POS
    /\ a.ord = "Row" /\ b.ord = "Col" /\ c.ord = "Row"
    /\ a.w > 1 /\ c.h > 1 /\ c.w > 0
    /\ trace[2].name = "SubABt"
    /\ trace[2].ops[2] = C10_TransShape(Shape(b))

----------------------------------------------------------------------------
(* C11: for every (ADD,POS) and every order of a and b, NgGEMM<ADD,POS> on  *)
(* a column-major c calls NgGEMM<ADD,POS>(Trans(b), Trans(a), Trans(c)) and *)
(* leaves in c the same matrix values as the same call on a row-major c     *)
(* holding the same values.                                                 *)

\* a packed row-major matrix holding the values of m
RowMajorOf(m) == MakeView(m.h, m.w, "Row", [ij \in Idx(m.h, m.w) |-> At(m, ij[1], ij[2])])

\* c after the same call on a row-major c holding the values c had on entry
C11_RowMajorCall ==
    LET rc == RowMajorOf(COld)
    IN [rc EXCEPT !.buf = NgGEMM(call.ADD, call.POS, a, b, rc).buf]

C11_ColMajorResultEqualsRowMajor ==
    (Done /\ call.op = "NgGEMM" /\ c.ord = "Col") =>
        /\ Len(trace) >= 2
        /\ trace[2].kind = "entry"
        /\ trace[2].name = "NgGEMM"
        /\ trace[2].flags = <<call.ADD, call.POS>>
        /\ trace[2].ops = <<Shape(Trans(b)), Shape(Trans(a)), Shape(Trans(c))>>
        /\ \A i \in 0..(c.h - 1), j \in 0..(c.w - 1) :
               At(c, i, j) = At(C11_RowMajorCall, i, j)

\* NgGEMM<false,true> with row-major a and column-major b and c overwrote a 2 x 2 c
C11_Witness ==
    /\ Done /\ call.op = "NgGEMM"
    /\ ~call.ADD /\ call.POS
    /\ a.ord = "Row" /\ b.ord = "Col" /\ c.ord = "Col"
    /\ c.h > 1 /\ c.w > 1 /\ a.w > 1
    /\ LastEntry.name = "MultABt"
    /\ c.buf # c0

----------------------------------------------------------------------------
(* C12: every column-major GEMV route yields the product with A itself:     *)
(* NgGEMV<false,true> via MultMatTransVec(Trans(a), x, y) gives y = A*x,    *)
(* NgGEMV<true,true> and <true,false> via MultAddMatTransVec(+1 / -1,       *)
(* Trans(a), x, y) give y += A*x and y -= A*x, MultAddMatVec(s, ColMajor a) *)
(* via MultAddMatTransVec(s, Trans(a), x, y) gives y += s*(A*x); each       *)
(* agrees with the row-major route on the same matrix values.               *)

\* y as it was when the call was entered
YOld == [y EXCEPT !.buf = y0]

\* the calls of the claim: a column-major a, and a policy that has a specialization
C12_ColMajorRoute ==
    /\ Done /\ a.ord = "Col"
    /\ \/ call.op = "MultAddMatVec(ColMajor)"
       \/ call.op = "NgGEMV" /\ (call.ADD \/ call.POS)

\* the scalar of the update
C12_Scalar == IF call.op = "NgGEMV" THEN (IF call.POS THEN 1 ELSE -1) ELSE call.s

\* the row-major route on a row-major matrix holding the values of a
C12_RowRoute ==
    IF call.ADD THEN MultAddMatVec(C12_Scalar, RowMajorOf(a), x, YOld)
                ELSE MultMatVec(RowMajorOf(a), x, YOld)

C12_ColMajorGemvUsesA ==
    C12_ColMajorRoute =>
        /\ LastEntry.name = IF call.ADD THEN "MultAddMatTransVec" ELSE "MultMatTransVec"
        /\ LastEntry.flags = IF call.ADD THEN <<C12_Scalar>> ELSE <<>>
        /\ LastEntry.ops = <<BareShape(Trans(a)), x.n, y.n>>
        /\ Len(Served) = 1 /\ Served[1].kind = "table"
        /\ YIsReference(call.ADD, C12_Scalar)
        /\ y.buf = C12_RowRoute.buf

\* MultAddMatVec with s = 2 on a column-major matrix of 2 rows changed y
C12_Witness ==
    /\ Done /\ call.op = "MultAddMatVec(ColMajor)"
    /\ call.s = 2
    /\ a.ord = "Col" /\ a.h > 1 /\ a.w > 1
    /\ LastEntry.name = "MultAddMatTransVec"
    /\ y.buf # y0

----------------------------------------------------------------------------
(* C13 as stated: MultAddMatTransVecIndirect(s, a, x, y, ind) dispatches on *)
(* the length of the contracted vector (x in y[ind[i]] += s*sum_j x[j]*     *)
(* A[j,i]); a key of at most 24 invokes exactly dispatch_addmattransvecI    *)
(* [key], a key above 24 invokes MultAddMatTransVecIndirect_intern and no   *)
(* table routine; exactly one of the two is invoked, once.                  *)

\* the call entered at position p dispatched on `key`
C13_DispatchedOn(p, key) ==
    IF key <= 24
    THEN /\ OneTableCall(p, "dispatch_addmattransvecI", key)
         /\ Len(tables["dispatch_addmattransvecI"]) = 25
    ELSE /\ TableCalls = <<>>
         /\ Len(Served) = 1
         /\ Served[1].kind = "intern"
         /\ Served[1].name = "MultAddMatTransVecIndirect_intern"

C13_KeyIsContractedLength ==
    Done =>
        \A p \in 1..Len(trace) :
            IsEntry(p, {"MultAddMatTransVecIndirect"}) => C13_DispatchedOn(p, trace[p].ops[2])

(* C13 amended: MultAddMatTransVecIndirect(s, a, x, y, ind) dispatches on   *)
(* y.Size(), the length of the vector it adds to, not on the length of the  *)
(* contracted vector x; a key of at most 24 invokes exactly                 *)
(* dispatch_addmattransvecI[key], inside the 25-entry table, a key above 24 *)
(* invokes MultAddMatTransVecIndirect_intern and no table routine; exactly  *)
(* one of the two is invoked, once.                                         *)
C13_KeyIsTargetLength ==
    Done =>
        \A p \in 1..Len(trace) :
            IsEntry(p, {"MultAddMatTransVecIndirect"}) =>
                /\ trace[p].ops[3] = y.n
                /\ C13_DispatchedOn(p, trace[p].ops[3])

\* a y of more than 24 entries with a short x went to the non-table routine
C13_Witness ==
    /\ Done /\ call.op = "MultAddMatTransVecIndirect"
    /\ y.n > 24 /\ x.n \in 1..2
    /\ TableCalls = <<>>
    /\ Served # <<>> /\ Served[1].name = "MultAddMatTransVecIndirect_intern"

----------------------------------------------------------------------------
(* C14: MultABt(a, b, c) and AddABt(a, b, c) with wa = a.Width(): for       *)
(* wa <= 24 the call invokes exactly dispatch_abt[wa] (resp.                *)
(* dispatch_addabt[wa]) with (a.Height(), b.Height(), a, b, c), the index   *)
(* inside the 25-entry table; for wa > 24 it invokes MultABt_intern (resp.  *)
(* AddABt_intern) and no table routine; no slot at index 25 or higher is    *)
(* read.                                                                    *)
C14_ABtThreshold ==
    Done =>
        /\ \A p \in 1..Len(trace) :
               IsEntry(p, {"MultABt", "AddABt"}) =>
                   LET pa == trace[p].ops[1]
                       pb == trace[p].ops[2]
                       t == C4_TableOf(trace[p])
                   IN IF pa.w <= 24
                      THEN /\ OneTableCall(p, t, pa.w)
                           /\ Len(tables[t]) = 25
                           /\ trace[p + 1].dims = <<pa.h, pb.h>>
                      ELSE /\ TableCalls = <<>>
                           /\ Len(Served) = 1
                           /\ Served[1].kind = "intern"
                           /\ Served[1].name = trace[p].name \o "_intern"
        /\ \A q \in 1..Len(trace) :
               (trace[q].kind = "table" /\ trace[q].name \in {"dispatch_abt", "dispatch_addabt"})
                   => trace[q].slot < 25

\* MultABt with a.Width() = 24 called the last slot with both heights
C14_Witness ==
    /\ Done /\ call.op = "MultABt"
    /\ a.w = 24 /\ a.h > 1 /\ c.w > 1
    /\ Len(TableCalls) = 1
    /\ TableCalls[1].name = "dispatch_abt"
    /\ TableCalls[1].slot = 24
    /\ TableCalls[1].dims = <<a.h, c.w>>

----------------------------------------------------------------------------
(* C15: for both memory orders of A and every shape, ScaleRows(A, diag) is  *)
(* exactly ScaleCols(Trans(A), diag): entry (i,j) of A becomes diag[i]      *)
(* times its previous value, and no other routine is run.                   *)
C15_ScaleRowsIsScaleColsOfTrans ==
    (Done /\ call.op = "ScaleRows") =>
        /\ Len(trace) = 2
        /\ IsEntry(1, {"ScaleRows"}) /\ trace[1].ops = <<Shape(c)>>
        /\ IsEntry(2, {"ScaleCols"}) /\ trace[2].ops = <<Shape(Trans(c))>>
        /\ \A i \in 0..(c.h - 1), j \in 0..(c.w - 1) :
               At(c, i, j) = RMul(VAt(diag, i), At(COld, i, j))

\* ScaleRows on a column-major 2 x 3 matrix changed it
C15_Witness ==
    /\ Done /\ call.op = "ScaleRows"
    /\ c.ord = "Col" /\ c.h = 2 /\ c.w = 3
    /\ c.buf # c0

----------------------------------------------------------------------------
(* C16: for every matrix A and every diag vector d with all entries         *)
(* invertible, ScaleRows(A, d) followed by ScaleCols applied to the         *)
(* transposed view of A with the entrywise inverse 1/d leaves A equal to    *)
(* its original value.                                                      *)
C16_ScaleRoundTrip ==
    (Done /\ call.op = "ScaleCols" /\ \A i \in 0..(c.h - 1) : VAt(diag, i)[1] # 0) =>
        /\ trace[1].ops = <<Shape(Trans(c))>>
        /\ \A i \in 0..(c.h - 1), j \in 0..(c.w - 1) : At(c, i, j) = At(COld, i, j)

\* a 3 x 2 matrix is back at its original value after rows of different weights,
\* none of them 1, were scaled and scaled back
C16_Witness ==
    /\ Done /\ call.op = "ScaleCols"
    /\ c.h = 3 /\ c.w = 2
    /\ VAt(diag, 0) # VAt(diag, 1)
    /\ \A i \in 0..(c.h - 1) : VAt(diag, i) # Rat(1, 1) /\ VAt(diag, i)[1] # 0
    /\ c.buf = c0

----------------------------------------------------------------------------
(* C17: for column-major a, b, c and every shape, SubADBt(a, diag, b, c) is *)
(* SubAtDB(Trans(b), diag, Trans(a), Trans(c)) and leaves c equal to        *)
(* c_old - a*diag(diag)*transpose(b); the result agrees with the row-major  *)
(* SubADBt on the same matrix values.                                       *)

\* the w x k operand b of the call
C17_B == Trans(b)

\* c after the row-major SubADBt on row-major matrices holding the same values
C17_RowMajorCall ==
    LET rc == RowMajorOf(COld)
    IN [rc EXCEPT !.buf = SubADBt(RowMajorOf(a), diag, RowMajorOf(C17_B), rc).buf]

C17_SubADBtColMajor ==
    (Done /\ call.op = "SubADBt(ColMajor)") =>
        /\ Len(trace) = 2
        /\ IsEntry(2, {"SubAtDB"})
        /\ trace[2].ops = <<Shape(Trans(C17_B)), Shape(Trans(a)), Shape(Trans(c))>>
        /\ \A i \in 0..(c.h - 1), j \in 0..(c.w - 1) :
               /\ At(c, i, j) =
                      At(COld, i, j)
                      - SumTo(a.w, [l \in 0..(a.w - 1) |->
                            At(a, i, l) * VAt(diag, l) * At(C17_B, j, l)])
               /\ At(c, i, j) = At(C17_RowMajorCall, i, j)

\* SubADBt on column-major operands with a contraction of length 3 changed a 2 x 2 c
C17_Witness ==
    /\ Done /\ call.op = "SubADBt(ColMajor)"
    /\ a.ord = "Col" /\ C17_B.ord = "Col" /\ c.ord = "Col"
    /\ c.h = 2 /\ c.w = 2 /\ a.w = 3
    /\ c.buf # c0

----------------------------------------------------------------------------
(* C18: for inputs a, b with a*transpose(b) symmetric and a symmetric c,    *)
(* AddABtSym(a, b, c) followed by copying the computed triangle onto the    *)
(* other triangle leaves c equal to the result of AddABt(a, b, c) applied   *)
(* to the full matrix from the same initial c.                              *)

IsSymmetric(m) ==
    /\ m.h = m.w
    /\ \A i \in 0..(m.h - 1), j \in 0..(m.w - 1) : At(m, i, j) = At(m, j, i)

\* a * transpose(bt) is symmetric
C18_ProductSymmetric(ma, bt) ==
    /\ ma.h = bt.h
    /\ \A i \in 0..(ma.h - 1), j \in 0..(ma.h - 1) :
           Prod_ABt(ma, bt, ma.w, i, j) = Prod_ABt(ma, bt, ma.w, j, i)

\* c after AddABt on the full matrix, from the c the calls started with
C18_FullUpdate == [c EXCEPT !.buf = AddABt(a, Trans(b), COld).buf]

C18_SymThenMirrorEqualsAddABt ==
    (Done /\ call.op = "Mirror" /\ IsSymmetric(COld) /\ C18_ProductSymmetric(a, Trans(b))) =>
        \A i \in 0..(c.h - 1), j \in 0..(c.w - 1) : At(c, i, j) = At(C18_FullUpdate, i, j)

\* a 3 x 3 symmetric c was updated with a * transpose(b), b different from a, through
\* the upper triangle and mirrored
C18_Witness ==
    /\ Done /\ call.op = "Mirror"
    /\ trace[1].flags = <<"upper">>
    /\ c.h = 3 /\ a.w = 2
    /\ IsSymmetric(COld) /\ C18_ProductSymmetric(a, Trans(b))
    /\ \E i \in 0..2 : At(Trans(b), i, 1) # At(a, i, 1)
    /\ At(c, 0, 2) # At(COld, 0, 2)
    /\ At(c, 2, 0) # At(COld, 2, 0)

----------------------------------------------------------------------------
\* the condensation call has returned
SchurDone == Done /\ call.op = "CalcSchurComplement"

NoneMarked == \A i \in 1..Len(used) : ~used[i]

AllMarked == \A i \in 1..Len(used) : used[i]

\* C19: when no index is marked in used, S equals a entry by entry (the kept block is
\* the whole of a); when every index is marked, S is a matrix of size zero and no
\* entry is written.
C19_SchurEdgeCases ==
    SchurDone =>
        /\ NoneMarked =>
              /\ S.h = a.h /\ S.w = a.w
              /\ \A i \in 0..(a.h - 1), j \in 0..(a.w - 1) : At(S, i, j) = At(a, i, j)
        /\ AllMarked =>
              /\ S.h = 0 /\ S.w = 0
              /\ S.buf = <<>>

\* a 3 x 3 matrix with no index marked was condensed: S, all zero before the call,
\* now holds the entries of a
C19_Witness ==
    /\ SchurDone
    /\ Len(used) = 3 /\ NoneMarked
    /\ S.h = 3
    /\ At(S, 0, 1) = At(a, 0, 1) /\ At(S, 0, 1) # Rat(0, 1)
    /\ At(S, 2, 2) = At(a, 2, 2) /\ At(S, 2, 2) # Rat(0, 1)

----------------------------------------------------------------------------
\* the n x n matrix F without row r and column cc
Minor(F, n, r, cc) ==
    [ij \in Idx(n - 1, n - 1) |->
        F[IF ij[1] < r THEN ij[1] ELSE ij[1] + 1, IF ij[2] < cc THEN ij[2] ELSE ij[2] + 1]]

Sign(l) == IF l % 2 = 0 THEN Rat(1, 1) ELSE Rat(-1, 1)

\* determinant of the n x n matrix F, expanded along its first row
RECURSIVE Det(_, _)
Det(F, n) ==
    IF n = 0 THEN Rat(1, 1)
    ELSE RSumTo(n, [j \in 0..(n - 1) |->
                       RMul(RMul(Sign(j), F[0, j]), Det(Minor(F, n, 0, j), n - 1))])

\* inverse of the n x n matrix F, Det(F, n) # 0, from its cofactors
InverseOf(F, n) ==
    [ij \in Idx(n, n) |->
        RDiv(RMul(Sign(ij[1] + ij[2]), Det(Minor(F, n, ij[2], ij[1]), n - 1)), Det(F, n))]

\* the eliminated and the kept indices of a
C20_e == Indices(used, TRUE)

C20_k == Indices(used, FALSE)

\* the block A_ee
C20_Aee == [ij \in Idx(Len(C20_e), Len(C20_e)) |-> At(a, C20_e[ij[1] + 1], C20_e[ij[2] + 1])]

\* entry (i, j) of A_kk - A_ke * inverse(A_ee) * A_ek
C20_ClosedForm(i, j) ==
    LET m == Len(C20_e)
        inv == InverseOf(C20_Aee, m)
    IN RSub(At(a, C20_k[i + 1], C20_k[j + 1]),
            RSumTo(m, [r \in 0..(m - 1) |->
                RSumTo(m, [t \in 0..(m - 1) |->
                    RMul(RMul(At(a, C20_k[i + 1], C20_e[r + 1]), inv[r, t]),
                         At(a, C20_e[t + 1], C20_k[j + 1]))])]))

C20_Precondition == IsSymmetric(a) /\ Det(C20_Aee, Len(C20_e)) # Rat(0, 1)

----------------------------------------------------------------------------
\* the eigen-decomposition has returned
EigenDone == pc = "done" /\ call.op = "CalcEigenSystem"

\* inner product of columns i and j of eigenvecs
C21_Dot(i, j) ==
    RSumTo(mat.h, [l \in 0..(mat.h - 1) |-> RMul(At(eigenvecs, l, i), At(eigenvecs, l, j))])

\* entry r of mat applied to column i of eigenvecs
C21_Applied(r, i) ==
    RSumTo(mat.h, [l \in 0..(mat.h - 1) |-> RMul(At(mat, r, l), At(eigenvecs, l, i))])

----------------------------------------------------------------------------
\* C22: CalcEigenSystem terminates for every input: the number of sweeps never
\* exceeds the cap, a call that was entered returns, and a call that returns without
\* convergence has used up the cap and leaves the current diagonal of the scratch
\* matrix in lami.
C22_EigenTerminates ==
    /\ [](sweeps <= MaxSweeps)
    /\ (pc = "sweep") ~> EigenDone
    /\ [](EigenDone /\ ~Converged(work, mat.h) =>
            /\ sweeps = MaxSweeps
            /\ \A i \in 0..(mat.h - 1) : \E k \in 0..(mat.h - 1) : VAt(lami, k) = work[i, i])

\* a 3 x 3 matrix was returned after the last allowed sweep with off-diagonal entries
\* still present
C22_Witness ==
    /\ EigenDone
    /\ mat.h = 3
    /\ sweeps = MaxSweeps
    /\ ~Converged(work, mat.h)
    /\ VAt(lami, 2) = work[2, 2]

----------------------------------------------------------------------------
\* the coefficient matrix a is the identity
IdentityCoef ==
    \A i \in 0..(a.h - 1), j \in 0..(a.w - 1) : At(a, i, j) = (IF i = j THEN 1 ELSE 0)

MultiDone == pc = "done" /\ call.op = "MultiVectorAdd"

\* C23 as stated: after PairwiseInnerProduct and MultiVectorAdd with the identity
\* coefficient matrix every vector x_i equals its value before the two calls.
C23_RoundTripRestoresX ==
    (MultiDone /\ IdentityCoef) => xs = xs0

\* C23, amended: PairwiseInnerProduct writes only ip(i,j) = <x_i, y_j> and leaves the
\* vectors alone; after MultiVectorAdd with the identity coefficient matrix every
\* vector x_i equals its value before the two calls plus y_i.
C23_RoundTripAddsY ==
    /\ (pc = "done" /\ call.op = "PairwiseInnerProduct") =>
          /\ xs = xs0
          /\ \A i \in 0..(Len(xs) - 1), j \in 0..(Len(ys) - 1) :
                 At(ip, i, j) = InnerProduct(xs0[i + 1], ys[j + 1], VecLen)
    /\ (MultiDone /\ IdentityCoef) =>
          \A i \in 1..Len(xs) : \A l \in 1..VecLen : xs[i][l] = xs0[i][l] + ys[i][l]

\* two vectors of length 3 went through both calls with the identity coefficient
\* matrix, and a vector x_i differs from its value before the calls
C23_Witness ==
    /\ MultiDone /\ IdentityCoef
    /\ Len(xs) = 2 /\ VecLen = 3
    /\ xs[1][1] = xs0[1][1] + ys[1][1]
    /\ xs[1] # xs0[1]
    /\ At(ip, 0, 1) = InnerProduct(xs0[1], ys[2], 3)
    /\ At(ip, 0, 1) # 0

----------------------------------------------------------------------------
\* C24: in every state reached by any sequence of calls of the dispatch entry points
\* and of the NgGEMM/NgGEMV adaptors every dispatch table holds, entry by entry, the
\* routine references it held after initialization, and the routine a call took
\* from a table is the one initialization stored there.
C24_TablesImmutable ==
    /\ \A t \in DOMAIN InitTables :
           /\ Len(tables[t]) = Len(InitTables[t])
           /\ \A i \in 1..Len(InitTables[t]) : tables[t][i] = InitTables[t][i]
    /\ \A n \in 1..Len(trace) :
           trace[n].kind = "table" => trace[n].routine = InitTables[trace[n].name][trace[n].slot + 1]

\* a second call has returned after a first one; it changed c through a routine
\* taken from a table, and the tables are as initialized
C24_Witness ==
    /\ Done
    /\ calls = 1
    /\ c.buf # c0
    /\ \E n \in 1..Len(trace) : trace[n].kind = "table"
    /\ tables = InitTables


----------------------------------------------------------------------------
(* C25: scratch regions follow stack discipline and are released on every    *)
(* exit path: when a scope (a call of CalcSchurComplement, an iteration of a *)
(* block guarded by HeapReset) ends, by return or by exception, the scope    *)
(* that ends is the most deeply nested one and the allocation mark is again  *)
(* the one the arena had when that scope was entered; with no scope left the *)
(* arena is empty again.                                                     *)
C25_ScratchReleased ==
    /\ [](hr = <<>> => lh = 0)
    /\ [](\A i \in 1..Len(hr) : hr[i].mark <= (IF i < Len(hr) THEN hr[i + 1].mark ELSE lh))
    /\ [][Len(hr') # Len(hr) =>
            IF Len(hr') > Len(hr)
            THEN /\ hr = SubSeq(hr', 1, Len(hr')  - 1)
                 /\ hr'[Len(hr')].mark = lh
                 /\ lh' = lh
            ELSE /\ hr' = SubSeq(hr, 1, Len(hr) - 1)
                 /\ lh' = hr[Len(hr)].mark]_vars

\* an exception is on its way out: one block iteration is left to unwind, and it
\* holds one unit of scratch above the mark it was entered with
C25_Witness ==
    /\ unwinding
    /\ Len(hr) = 1
    /\ hr[1].kind = "block"
    /\ hr[1].mark = 0
    /\ lh = 1

----------------------------------------------------------------------------
\* a vector operation has returned
VecDone == pc = "done" /\ call.op \in {"CopyVector", "AddVector"}

\* the cells of src the loop over the indices of dest reads
ReadCells == {Cell(src, i) : i \in 0..(dest.n - 1)}

\* src and dest view the same buffer with identical indexing
SameIndexing == src.start = dest.start /\ src.dist = dest.dist

\* element i of dest is the element i + 1 of src
ShiftedByOne == dest.start = src.start + src.dist /\ src.dist = dest.dist

(* C26: CopyVector(src, dest) and AddVector(alpha, src, dest) run over        *)
(* exactly the indices of dest, in increasing order, writing dest[i] = src[i] *)
(* resp. dest[i] += alpha*src[i], and write no cell outside dest; when src    *)
(* and dest view the same buffer with identical indexing CopyVector leaves   *)
(* the buffer unchanged and AddVector leaves every element (1 + alpha) times *)
(* its original value.                                                       *)
C26_VectorOps ==
    VecDone =>
        /\ \A p \in (1..MemCells) \ Cells(dest) : mem[p] = mem0[p]
        /\ ReadCells \cap Cells(dest) = {} =>
              \A i \in 0..(dest.n - 1) :
                 mem[Cell(dest, i)] =
                    IF call.op = "CopyVector" THEN mem0[Cell(src, i)]
                    ELSE mem0[Cell(dest, i)] + call.s * mem0[Cell(src, i)]
        /\ SameIndexing =>
              IF call.op = "CopyVector" THEN mem = mem0
              ELSE \A i \in 0..(dest.n - 1) :
                      mem[Cell(dest, i)] = (1 + call.s) * mem0[Cell(dest, i)]
        /\ ShiftedByOne /\ call.op = "CopyVector" =>
              \A i \in 0..(dest.n - 1) : mem[Cell(dest, i)] = mem0[Cell(src, 0)]

\* AddVector with alpha = 2 has returned from a call whose src and dest are the
\* same two elements, a longer src has left its last element alone
C26_Witness ==
    /\ VecDone
    /\ call.op = "AddVector" /\ call.s = 2
    /\ SameIndexing
    /\ dest.n = 2 /\ src.n = 3
    /\ mem[Cell(dest, 1)] = 3 * mem0[Cell(dest, 1)]
    /\ mem # mem0

----------------------------------------------------------------------------
\* the entries into NgGEMM made by the call, outermost first
GemmEntries == SelectSeq(trace, LAMBDA e : e.kind = "entry" /\ e.name = "NgGEMM")

(* C27: NgGEMM recurses at most once: a call with a column-major c enters    *)
(* NgGEMM a second time, on Trans(c), which is row-major, and no third time; *)
(* a call with a row-major c enters it once; in every case the last NgGEMM   *)
(* entered has a row-major result and the call goes on to a routine that is  *)
(* not NgGEMM, for every order of a and b and every (ADD,POS).               *)
C27_RecursesAtMostOnce ==
    (Done /\ call.op = "NgGEMM") =>
        /\ Len(GemmEntries) = (IF c.ord = "Col" THEN 2 ELSE 1)
        /\ \A p \in 1..Len(GemmEntries) :
               GemmEntries[p].ops[3].ord = (IF p = 1 THEN c.ord ELSE "Row")
        /\ \A p \in 1..Len(GemmEntries) : trace[p] = GemmEntries[p]
        /\ Len(trace) > Len(GemmEntries)

\* NgGEMM<true,false> on column-major a, b and c went through Trans(c) and changed c
C27_Witness ==
    /\ Done /\ call.op = "NgGEMM"
    /\ call.ADD /\ ~call.POS
    /\ a.ord = "Col" /\ b.ord = "Col" /\ c.ord = "Col"
    /\ Len(GemmEntries) = 2
    /\ LastEntry.name = "SubAB"
    /\ c.buf # c0

----------------------------------------------------------------------------
\* the largest of a non-empty set of sizes
MaxSize(sizes) == CHOOSE u \in sizes : \A v \in sizes : ~Greater(v, u)

\* the record of the call the step makes, if it makes one
CallMade == Len(passed') = Len(passed) + 1
ThisCall == passed'[Len(passed')]

\* the heapsize arguments passed so far, as the callers wrote them, of the calls
\* without an explicit heap
ArgumentsPassed ==
    {passed[i].heapsize : i \in {j \in 1..Len(passed) : ~passed[j].heap}}

\* the heapsize arguments of the calls that reached the test, as the test sees them:
\* an int converted to size_t
ArgumentsTested ==
    {ToSizeT(passed[i].heapsize[2]) :
        i \in {j \in 1..Len(passed) :
                 ~passed[j].heap /\ ~passed[j].tpspace /\ passed[j].heapsize[1] = 0}}
    \cup {passed[i].heapsize : i \in {j \in 1..Len(passed) : passed[j].heapsize[1] = 1}}

----------------------------------------------------------------------------
(* C29: in the entry points that take heapsize as an int a negative heapsize *)
(* is treated as not larger than global_heapsize: the call leaves            *)
(* global_heapsize and glh unchanged.                                        *)
C29_NegativeHeapSizeIgnored ==
    [][CallMade /\ ThisCall.heapsize[1] = 0 /\ ThisCall.heapsize[2] < 0 =>
          glh' = glh /\ global_heapsize' = global_heapsize]_vars

----------------------------------------------------------------------------
\* the region of the element is set in mask
Masked(el) == mask[GetIndex(el) + 1]

(* C30: in Integrate, for every interleaving of the element callbacks: an    *)
(* element whose region is set in mask adds its contribution to sum exactly  *)
(* once, computed by the SIMD path or, after ExceptionNOSIMD, from zero by   *)
(* the scalar path, never by both; an element whose region is cleared adds   *)
(* nothing; no addition to sum or region_sum is lost; and the shared flag    *)
(* use_simd only changes from true to false.                                 *)
C30_IntegrateAddsOnce ==
    /\ [](call.op = "Integrate" =>
            /\ \A el \in Elements : adds[el] <= 1 /\ (adds[el] = 1 => Masked(el))
            /\ sum = ContributionOf({el \in Elements : adds[el] = 1})
            /\ \A t \in Threads :
                   workers[t].pc \in {"add", "region"} =>
                      workers[t].hsum = Contribution(workers[t].el)
            /\ pc = "done" =>
                   /\ \A el \in Elements : adds[el] = (IF Masked(el) THEN 1 ELSE 0)
                   /\ sum = ContributionOf({el \in Elements : Masked(el)})
                   /\ args.region_wise =>
                         \A r \in 1..NRegions :
                            region_sum[r] =
                               ContributionOf({el \in Elements :
                                                  Masked(el) /\ GetIndex(el) + 1 = r}))
    /\ [][pc = "iterate" => (use_simd' => use_simd)]_vars

\* Integrate has returned the contribution of the one element of the region set in
\* mask, after an ExceptionNOSIMD had cleared use_simd
C30_Witness ==
    /\ call.op = "Integrate" /\ pc = "done"
    /\ ~use_simd
    /\ mask = <<TRUE, FALSE>>
    /\ args.region_wise
    /\ adds = [el \in Elements |-> IF GetIndex(el) = 0 THEN 1 ELSE 0]
    /\ sum > 0
====
